---- MODULE Spec2Model ----
(***************************************************************************)
(* StockVista: symbol resolution (CompanySearcher), the recommendation     *)
(* scorecard (get_recommendation) and the profit-compounding scorecard     *)
(* (ProfitCompoundingAnalyzer).  Text is modelled as sequences of          *)
(* one-character strings so that lower(), upper(), strip() and the `in`    *)
(* substring test are computed, not assumed.                               *)
(***************************************************************************)
EXTENDS Integers, Sequences, FiniteSets, TLC

VARIABLES
    indian_exchanges,   \* CompanySearcher.indian_exchanges
    indian_companies,   \* CompanySearcher.indian_companies (insertion order)
    us_companies,       \* CompanySearcher.us_companies (insertion order)
    query,              \* argument of the last search_company call
    probe,              \* what yf.Ticker(symbol).info did for each probed symbol
    result,             \* outcome of the last search_company call
    session,            \* SpecSession: the calls made on session_state.company_searcher
    info,               \* the profile dict handed to get_recommendation
    hist_data,          \* the price history handed to get_recommendation
    rec_applied,        \* get_recommendation: the rules completed when it returned
    rec_result,         \* outcome of the last get_recommendation call
    financials,         \* what ticker.financials did (income statement frame)
    balance_sheet,      \* what ticker.balance_sheet did
    comp_result,        \* outcome of the last analyze_profit_compounding call
    comp_applied,       \* analyze_profit_compounding: what each of its six rules did
    compounding_tab,    \* what the Profit Compounding tab showed for the analysis
    limit,              \* `limit` argument of the last get_suggestions call
    suggestions,        \* outcome of the last get_suggestions call
    cash_flow,          \* what ticker.cashflow did (cash-flow statement frame)
    valuation,          \* outcomes of the four valuation.py functions
    economy,            \* what the four FRED getters returned, and the stock's sector
    economic_analysis   \* outcome of the last analyze_economic_impact_on_stock call

search_vars == <<indian_exchanges, indian_companies, us_companies, query, probe, result, session>>
rec_vars == <<info, hist_data, rec_applied, rec_result>>
comp_vars == <<financials, balance_sheet, comp_result, comp_applied, compounding_tab>>
sugg_vars == <<limit, suggestions>>
val_vars == <<cash_flow, valuation>>
econ_vars == <<economy, economic_analysis>>
vars == <<search_vars, rec_vars, comp_vars, sugg_vars, val_vars, econ_vars>>

(***************************************************************************)
(* Outcomes of a call: a returned value or a propagated exception.         *)
(***************************************************************************)
Returned(v) == [raised |-> FALSE, value |-> v]
Raised == [raised |-> TRUE]
NotCalled == [raised |-> FALSE, called |-> FALSE]
\* none of the four valuation functions called yet
NoValuation == [dcf |-> NotCalled, pe |-> NotCalled, graham |-> NotCalled, peg |-> NotCalled]

(***************************************************************************)
(* Text.                                                                   *)
(***************************************************************************)
LowerLetters == <<"a","b","c","d","e","f","g","h","i","j","k","l","m",
                  "n","o","p","q","r","s","t","u","v","w","x","y","z">>
UpperLetters == <<"A","B","C","D","E","F","G","H","I","J","K","L","M",
                  "N","O","P","Q","R","S","T","U","V","W","X","Y","Z">>
Whitespace == {" ", "\t", "\n"}

LowerChar(c) ==
    IF \E i \in DOMAIN UpperLetters : UpperLetters[i] = c
    THEN LowerLetters[CHOOSE i \in DOMAIN UpperLetters : UpperLetters[i] = c]
    ELSE c

UpperChar(c) ==
    IF \E i \in DOMAIN LowerLetters : LowerLetters[i] = c
    THEN UpperLetters[CHOOSE i \in DOMAIN LowerLetters : LowerLetters[i] = c]
    ELSE c

lower(s) == [i \in DOMAIN s |-> LowerChar(s[i])]
upper(s) == [i \in DOMAIN s |-> UpperChar(s[i])]

strip(s) ==
    LET keep == {i \in DOMAIN s : s[i] \notin Whitespace}
    IN  IF keep = {} THEN << >>
        ELSE LET lo == CHOOSE i \in keep : \A j \in keep : i <= j
                 hi == CHOOSE i \in keep : \A j \in keep : j <= i
             IN  SubSeq(s, lo, hi)

\* Python's `a in b` on two strings
IsSubstring(a, b) ==
    \E k \in 0..(Len(b) - Len(a)) : SubSeq(b, k + 1, k + Len(a)) = a

IndianCompaniesInit ==
 <<
  [name |-> <<"t", "c", "s">>, symbol |-> <<"T", "C", "S", ".", "N", "S">>],
  [name |-> <<"t", "a", "t", "a", " ", "c", "o", "n", "s", "u", "l", "t", "a", "n", "c", "y", " ", "s", "e", "r", "v", "i", "c", "e", "s">>, symbol |-> <<"T", "C", "S", ".", "N", "S">>],
  [name |-> <<"i", "n", "f", "o", "s", "y", "s">>, symbol |-> <<"I", "N", "F", "Y", ".", "N", "S">>],
  [name |-> <<"w", "i", "p", "r", "o">>, symbol |-> <<"W", "I", "P", "R", "O", ".", "N", "S">>],
  [name |-> <<"h", "c", "l", " ", "t", "e", "c", "h", "n", "o", "l", "o", "g", "i", "e", "s">>, symbol |-> <<"H", "C", "L", "T", "E", "C", "H", ".", "N", "S">>],
  [name |-> <<"t", "e", "c", "h", " ", "m", "a", "h", "i", "n", "d", "r", "a">>, symbol |-> <<"T", "E", "C", "H", "M", ".", "N", "S">>],
  [name |-> <<"h", "d", "f", "c", " ", "b", "a", "n", "k">>, symbol |-> <<"H", "D", "F", "C", "B", "A", "N", "K", ".", "N", "S">>],
  [name |-> <<"i", "c", "i", "c", "i", " ", "b", "a", "n", "k">>, symbol |-> <<"I", "C", "I", "C", "I", "B", "A", "N", "K", ".", "N", "S">>],
  [name |-> <<"s", "t", "a", "t", "e", " ", "b", "a", "n", "k", " ", "o", "f", " ", "i", "n", "d", "i", "a">>, symbol |-> <<"S", "B", "I", "N", ".", "N", "S">>],
  [name |-> <<"s", "b", "i">>, symbol |-> <<"S", "B", "I", "N", ".", "N", "S">>],
  [name |-> <<"a", "x", "i", "s", " ", "b", "a", "n", "k">>, symbol |-> <<"A", "X", "I", "S", "B", "A", "N", "K", ".", "N", "S">>],
  [name |-> <<"k", "o", "t", "a", "k", " ", "m", "a", "h", "i", "n", "d", "r", "a", " ", "b", "a", "n", "k">>, symbol |-> <<"K", "O", "T", "A", "K", "B", "A", "N", "K", ".", "N", "S">>],
  [name |-> <<"b", "a", "j", "a", "j", " ", "f", "i", "n", "a", "n", "c", "e">>, symbol |-> <<"B", "A", "J", "F", "I", "N", "A", "N", "C", "E", ".", "N", "S">>],
  [name |-> <<"h", "d", "f", "c">>, symbol |-> <<"H", "D", "F", "C", ".", "N", "S">>],
  [name |-> <<"t", "a", "t", "a", " ", "m", "o", "t", "o", "r", "s">>, symbol |-> <<"T", "A", "T", "A", "M", "O", "T", "O", "R", "S", ".", "N", "S">>],
  [name |-> <<"m", "a", "r", "u", "t", "i", " ", "s", "u", "z", "u", "k", "i">>, symbol |-> <<"M", "A", "R", "U", "T", "I", ".", "N", "S">>],
  [name |-> <<"m", "a", "h", "i", "n", "d", "r", "a">>, symbol |-> <<"M", "&", "M", ".", "N", "S">>],
  [name |-> <<"b", "a", "j", "a", "j", " ", "a", "u", "t", "o">>, symbol |-> <<"B", "A", "J", "A", "J", "-", "A", "U", "T", "O", ".", "N", "S">>],
  [name |-> <<"h", "e", "r", "o", " ", "m", "o", "t", "o", "c", "o", "r", "p">>, symbol |-> <<"H", "E", "R", "O", "M", "O", "T", "O", "C", "O", ".", "N", "S">>],
  [name |-> <<"t", "v", "s", " ", "m", "o", "t", "o", "r">>, symbol |-> <<"T", "V", "S", "M", "O", "T", "O", "R", ".", "N", "S">>],
  [name |-> <<"s", "u", "n", " ", "p", "h", "a", "r", "m", "a">>, symbol |-> <<"S", "U", "N", "P", "H", "A", "R", "M", "A", ".", "N", "S">>],
  [name |-> <<"d", "r", " ", "r", "e", "d", "d", "y">>, symbol |-> <<"D", "R", "R", "E", "D", "D", "Y", ".", "N", "S">>],
  [name |-> <<"c", "i", "p", "l", "a">>, symbol |-> <<"C", "I", "P", "L", "A", ".", "N", "S">>],
  [name |-> <<"l", "u", "p", "i", "n">>, symbol |-> <<"L", "U", "P", "I", "N", ".", "N", "S">>],
  [name |-> <<"a", "u", "r", "o", "b", "i", "n", "d", "o", " ", "p", "h", "a", "r", "m", "a">>, symbol |-> <<"A", "U", "R", "O", "P", "H", "A", "R", "M", "A", ".", "N", "S">>],
  [name |-> <<"d", "i", "v", "i", "'", "s", " ", "l", "a", "b", "o", "r", "a", "t", "o", "r", "i", "e", "s">>, symbol |-> <<"D", "I", "V", "I", "S", "L", "A", "B", ".", "N", "S">>],
  [name |-> <<"r", "e", "l", "i", "a", "n", "c", "e">>, symbol |-> <<"R", "E", "L", "I", "A", "N", "C", "E", ".", "N", "S">>],
  [name |-> <<"r", "e", "l", "i", "a", "n", "c", "e", " ", "i", "n", "d", "u", "s", "t", "r", "i", "e", "s">>, symbol |-> <<"R", "E", "L", "I", "A", "N", "C", "E", ".", "N", "S">>],
  [name |-> <<"o", "i", "l", " ", "a", "n", "d", " ", "n", "a", "t", "u", "r", "a", "l", " ", "g", "a", "s", " ", "c", "o", "r", "p", "o", "r", "a", "t", "i", "o", "n">>, symbol |-> <<"O", "N", "G", "C", ".", "N", "S">>],
  [name |-> <<"o", "n", "g", "c">>, symbol |-> <<"O", "N", "G", "C", ".", "N", "S">>],
  [name |-> <<"i", "n", "d", "i", "a", "n", " ", "o", "i", "l">>, symbol |-> <<"I", "O", "C", ".", "N", "S">>],
  [name |-> <<"b", "h", "a", "r", "a", "t", " ", "p", "e", "t", "r", "o", "l", "e", "u", "m">>, symbol |-> <<"B", "P", "C", "L", ".", "N", "S">>],
  [name |-> <<"h", "i", "n", "d", "u", "s", "t", "a", "n", " ", "p", "e", "t", "r", "o", "l", "e", "u", "m">>, symbol |-> <<"H", "I", "N", "D", "P", "E", "T", "R", "O", ".", "N", "S">>],
  [name |-> <<"t", "a", "t", "a", " ", "s", "t", "e", "e", "l">>, symbol |-> <<"T", "A", "T", "A", "S", "T", "E", "E", "L", ".", "N", "S">>],
  [name |-> <<"j", "s", "w", " ", "s", "t", "e", "e", "l">>, symbol |-> <<"J", "S", "W", "S", "T", "E", "E", "L", ".", "N", "S">>],
  [name |-> <<"h", "i", "n", "d", "a", "l", "c", "o">>, symbol |-> <<"H", "I", "N", "D", "A", "L", "C", "O", ".", "N", "S">>],
  [name |-> <<"v", "e", "d", "a", "n", "t", "a">>, symbol |-> <<"V", "E", "D", "L", ".", "N", "S">>],
  [name |-> <<"c", "o", "a", "l", " ", "i", "n", "d", "i", "a">>, symbol |-> <<"C", "O", "A", "L", "I", "N", "D", "I", "A", ".", "N", "S">>],
  [name |-> <<"n", "m", "d", "c">>, symbol |-> <<"N", "M", "D", "C", ".", "N", "S">>],
  [name |-> <<"h", "i", "n", "d", "u", "s", "t", "a", "n", " ", "u", "n", "i", "l", "e", "v", "e", "r">>, symbol |-> <<"H", "I", "N", "D", "U", "N", "I", "L", "V", "R", ".", "N", "S">>],
  [name |-> <<"h", "u", "l">>, symbol |-> <<"H", "I", "N", "D", "U", "N", "I", "L", "V", "R", ".", "N", "S">>],
  [name |-> <<"i", "t", "c">>, symbol |-> <<"I", "T", "C", ".", "N", "S">>],
  [name |-> <<"n", "e", "s", "t", "l", "e", " ", "i", "n", "d", "i", "a">>, symbol |-> <<"N", "E", "S", "T", "L", "E", "I", "N", "D", ".", "N", "S">>],
  [name |-> <<"b", "r", "i", "t", "a", "n", "n", "i", "a">>, symbol |-> <<"B", "R", "I", "T", "A", "N", "N", "I", "A", ".", "N", "S">>],
  [name |-> <<"g", "o", "d", "r", "e", "j", " ", "c", "o", "n", "s", "u", "m", "e", "r">>, symbol |-> <<"G", "O", "D", "R", "E", "J", "C", "P", ".", "N", "S">>],
  [name |-> <<"b", "h", "a", "r", "t", "i", " ", "a", "i", "r", "t", "e", "l">>, symbol |-> <<"B", "H", "A", "R", "T", "I", "A", "R", "T", "L", ".", "N", "S">>],
  [name |-> <<"a", "i", "r", "t", "e", "l">>, symbol |-> <<"B", "H", "A", "R", "T", "I", "A", "R", "T", "L", ".", "N", "S">>],
  [name |-> <<"v", "o", "d", "a", "f", "o", "n", "e", " ", "i", "d", "e", "a">>, symbol |-> <<"I", "D", "E", "A", ".", "N", "S">>],
  [name |-> <<"j", "i", "o">>, symbol |-> <<"R", "J", "I", "O", ".", "N", "S">>],
  [name |-> <<"n", "t", "p", "c">>, symbol |-> <<"N", "T", "P", "C", ".", "N", "S">>],
  [name |-> <<"p", "o", "w", "e", "r", " ", "g", "r", "i", "d">>, symbol |-> <<"P", "O", "W", "E", "R", "G", "R", "I", "D", ".", "N", "S">>],
  [name |-> <<"l", "a", "r", "s", "e", "n", " ", "t", "o", "u", "b", "r", "o">>, symbol |-> <<"L", "T", ".", "N", "S">>],
  [name |-> <<"l", "&", "t">>, symbol |-> <<"L", "T", ".", "N", "S">>],
  [name |-> <<"u", "l", "t", "r", "a", "t", "e", "c", "h", " ", "c", "e", "m", "e", "n", "t">>, symbol |-> <<"U", "L", "T", "R", "A", "C", "E", "M", "C", "O", ".", "N", "S">>],
  [name |-> <<"g", "r", "a", "s", "i", "m">>, symbol |-> <<"G", "R", "A", "S", "I", "M", ".", "N", "S">>],
  [name |-> <<"a", "d", "a", "n", "i", " ", "e", "n", "t", "e", "r", "p", "r", "i", "s", "e", "s">>, symbol |-> <<"A", "D", "A", "N", "I", "E", "N", "T", ".", "N", "S">>],
  [name |-> <<"a", "s", "i", "a", "n", " ", "p", "a", "i", "n", "t", "s">>, symbol |-> <<"A", "S", "I", "A", "N", "P", "A", "I", "N", "T", ".", "N", "S">>],
  [name |-> <<"b", "a", "j", "a", "j", " ", "f", "i", "n", "s", "e", "r", "v">>, symbol |-> <<"B", "A", "J", "A", "J", "F", "I", "N", "S", "V", ".", "N", "S">>],
  [name |-> <<"t", "i", "t", "a", "n">>, symbol |-> <<"T", "I", "T", "A", "N", ".", "N", "S">>]
 >>

UsCompaniesInit ==
 <<
  [name |-> <<"a", "p", "p", "l", "e">>, symbol |-> <<"A", "A", "P", "L">>],
  [name |-> <<"m", "i", "c", "r", "o", "s", "o", "f", "t">>, symbol |-> <<"M", "S", "F", "T">>],
  [name |-> <<"g", "o", "o", "g", "l", "e">>, symbol |-> <<"G", "O", "O", "G", "L">>],
  [name |-> <<"a", "l", "p", "h", "a", "b", "e", "t">>, symbol |-> <<"G", "O", "O", "G", "L">>],
  [name |-> <<"a", "m", "a", "z", "o", "n">>, symbol |-> <<"A", "M", "Z", "N">>],
  [name |-> <<"t", "e", "s", "l", "a">>, symbol |-> <<"T", "S", "L", "A">>],
  [name |-> <<"m", "e", "t", "a">>, symbol |-> <<"M", "E", "T", "A">>],
  [name |-> <<"f", "a", "c", "e", "b", "o", "o", "k">>, symbol |-> <<"M", "E", "T", "A">>],
  [name |-> <<"n", "e", "t", "f", "l", "i", "x">>, symbol |-> <<"N", "F", "L", "X">>],
  [name |-> <<"n", "v", "i", "d", "i", "a">>, symbol |-> <<"N", "V", "D", "A">>],
  [name |-> <<"i", "n", "t", "e", "l">>, symbol |-> <<"I", "N", "T", "C">>],
  [name |-> <<"a", "m", "d">>, symbol |-> <<"A", "M", "D">>],
  [name |-> <<"o", "r", "a", "c", "l", "e">>, symbol |-> <<"O", "R", "C", "L">>],
  [name |-> <<"s", "a", "l", "e", "s", "f", "o", "r", "c", "e">>, symbol |-> <<"C", "R", "M">>],
  [name |-> <<"a", "d", "o", "b", "e">>, symbol |-> <<"A", "D", "B", "E">>],
  [name |-> <<"p", "a", "y", "p", "a", "l">>, symbol |-> <<"P", "Y", "P", "L">>],
  [name |-> <<"v", "i", "s", "a">>, symbol |-> <<"V">>],
  [name |-> <<"m", "a", "s", "t", "e", "r", "c", "a", "r", "d">>, symbol |-> <<"M", "A">>],
  [name |-> <<"j", "p", "m", "o", "r", "g", "a", "n">>, symbol |-> <<"J", "P", "M">>],
  [name |-> <<"j", "p", " ", "m", "o", "r", "g", "a", "n">>, symbol |-> <<"J", "P", "M">>],
  [name |-> <<"b", "a", "n", "k", " ", "o", "f", " ", "a", "m", "e", "r", "i", "c", "a">>, symbol |-> <<"B", "A", "C">>],
  [name |-> <<"w", "e", "l", "l", "s", " ", "f", "a", "r", "g", "o">>, symbol |-> <<"W", "F", "C">>],
  [name |-> <<"g", "o", "l", "d", "m", "a", "n", " ", "s", "a", "c", "h", "s">>, symbol |-> <<"G", "S">>],
  [name |-> <<"m", "o", "r", "g", "a", "n", " ", "s", "t", "a", "n", "l", "e", "y">>, symbol |-> <<"M", "S">>],
  [name |-> <<"b", "e", "r", "k", "s", "h", "i", "r", "e", " ", "h", "a", "t", "h", "a", "w", "a", "y">>, symbol |-> <<"B", "R", "K", "-", "B">>],
  [name |-> <<"j", "o", "h", "n", "s", "o", "n", " ", "&", " ", "j", "o", "h", "n", "s", "o", "n">>, symbol |-> <<"J", "N", "J">>],
  [name |-> <<"p", "f", "i", "z", "e", "r">>, symbol |-> <<"P", "F", "E">>],
  [name |-> <<"c", "o", "c", "a", " ", "c", "o", "l", "a">>, symbol |-> <<"K", "O">>],
  [name |-> <<"p", "e", "p", "s", "i">>, symbol |-> <<"P", "E", "P">>],
  [name |-> <<"w", "a", "l", "m", "a", "r", "t">>, symbol |-> <<"W", "M", "T">>],
  [name |-> <<"h", "o", "m", "e", " ", "d", "e", "p", "o", "t">>, symbol |-> <<"H", "D">>],
  [name |-> <<"d", "i", "s", "n", "e", "y">>, symbol |-> <<"D", "I", "S">>],
  [name |-> <<"b", "o", "e", "i", "n", "g">>, symbol |-> <<"B", "A">>],
  [name |-> <<"c", "a", "t", "e", "r", "p", "i", "l", "l", "a", "r">>, symbol |-> <<"C", "A", "T">>],
  [name |-> <<"e", "x", "x", "o", "n", " ", "m", "o", "b", "i", "l">>, symbol |-> <<"X", "O", "M">>],
  [name |-> <<"c", "h", "e", "v", "r", "o", "n">>, symbol |-> <<"C", "V", "X">>]
 >>

IndianExchangesInit == << <<".", "N", "S">>, <<".", "B", "O">> >>

\* dict lookups: `key in d` and `d[key]`
HasKey(d, key) == \E i \in DOMAIN d : d[i].name = key
Lookup(d, key) == d[CHOOSE i \in DOMAIN d : d[i].name = key].symbol

(***************************************************************************)
(* CompanySearcher                                                         *)
(***************************************************************************)
InfoOutcomes == {"raise", "none", "no_symbol", "has_symbol"}

\* variant without the try/except: the probe's exception propagates
is_valid_symbol_unguarded(ticker_info) ==
    IF ticker_info = "raise" THEN Raised
    ELSE Returned(ticker_info # "none" /\ ticker_info = "has_symbol")

\* _is_valid_symbol: bool(info and 'symbol' in info), False on any exception
is_valid_symbol(ticker_info) ==
    IF ticker_info = "raise" THEN Returned(FALSE)
    ELSE Returned(ticker_info # "none" /\ ticker_info = "has_symbol")

\* variant matching nothing for an empty query
RECURSIVE partial_match_nonempty(_, _, _)
partial_match_nonempty(table, query_lower, i) ==
    IF i > Len(table) \/ query_lower = << >> THEN [found |-> FALSE]
    ELSE IF IsSubstring(query_lower, table[i].name) \/ IsSubstring(table[i].name, query_lower)
         THEN [found |-> TRUE, symbol |-> table[i].symbol]
         ELSE partial_match_nonempty(table, query_lower, i + 1)

\* variant testing one direction only (query_lower in name)
RECURSIVE partial_match_one_way(_, _, _)
partial_match_one_way(table, query_lower, i) ==
    IF i > Len(table) THEN [found |-> FALSE]
    ELSE IF IsSubstring(query_lower, table[i].name)
         THEN [found |-> TRUE, symbol |-> table[i].symbol]
         ELSE partial_match_one_way(table, query_lower, i + 1)

\* for name, symbol in table.items(): if query_lower in name or name in query_lower
RECURSIVE partial_match(_, _, _)
partial_match(table, query_lower, i) ==
    IF i > Len(table) THEN [found |-> FALSE]
    ELSE IF IsSubstring(query_lower, table[i].name) \/ IsSubstring(table[i].name, query_lower)
         THEN [found |-> TRUE, symbol |-> table[i].symbol]
         ELSE partial_match(table, query_lower, i + 1)

\* variant walking the suffix list from its last entry to its first
RECURSIVE suffix_probe_reversed(_, _, _)
suffix_probe_reversed(q, p, i) ==
    IF i > Len(indian_exchanges) THEN Returned(upper(q))
    ELSE LET j == Len(indian_exchanges) - i + 1
             test_symbol == upper(q) \o indian_exchanges[j]
             valid == is_valid_symbol(p[j + 1])
         IN  IF valid.raised THEN Raised
             ELSE IF valid.value THEN Returned(test_symbol)
             ELSE suffix_probe_reversed(q, p, i + 1)

\* for exchange in self.indian_exchanges: probe query.upper() + exchange
RECURSIVE suffix_probe(_, _, _)
suffix_probe(q, p, i) ==
    IF i > Len(indian_exchanges) THEN Returned(upper(q))
    ELSE LET test_symbol == upper(q) \o indian_exchanges[i]
             valid == is_valid_symbol(p[i + 1])
         IN  IF valid.raised THEN Raised
             ELSE IF valid.value THEN Returned(test_symbol)
             ELSE suffix_probe(q, p, i + 1)

\* variant consulting the tables before the validity probe
search_company_tables_first(q, p) ==
    LET query_lower == strip(lower(q))
        valid == is_valid_symbol(p[1])
    IN  IF HasKey(indian_companies, query_lower)
             THEN Returned(Lookup(indian_companies, query_lower))
        ELSE IF HasKey(us_companies, query_lower)
             THEN Returned(Lookup(us_companies, query_lower))
        ELSE IF valid.raised THEN Raised
        ELSE IF valid.value THEN Returned(upper(q))
        ELSE LET ind == partial_match(indian_companies, query_lower, 1)
                 us == partial_match(us_companies, query_lower, 1)
             IN  IF ind.found THEN Returned(ind.symbol)
                 ELSE IF us.found THEN Returned(us.symbol)
                 ELSE suffix_probe(q, p, 1)

\* variant running the substring passes before the exact lookups
search_company_partial_first(q, p) ==
    LET query_lower == strip(lower(q))
        valid == is_valid_symbol(p[1])
        ind == partial_match(indian_companies, query_lower, 1)
        us == partial_match(us_companies, query_lower, 1)
    IN  IF valid.raised THEN Raised
        ELSE IF valid.value THEN Returned(upper(q))
        ELSE IF ind.found THEN Returned(ind.symbol)
        ELSE IF us.found THEN Returned(us.symbol)
        ELSE IF HasKey(indian_companies, query_lower)
             THEN Returned(Lookup(indian_companies, query_lower))
        ELSE IF HasKey(us_companies, query_lower)
             THEN Returned(Lookup(us_companies, query_lower))
        ELSE suffix_probe(q, p, 1)

\* search_company: probe, exact lookups, substring passes, suffix probes, fallback
search_company(q, p) ==
    LET query_lower == strip(lower(q))
        valid == is_valid_symbol(p[1])
    IN  IF valid.raised THEN Raised
        ELSE IF valid.value THEN Returned(upper(q))
        ELSE IF HasKey(indian_companies, query_lower)
             THEN Returned(Lookup(indian_companies, query_lower))
        ELSE IF HasKey(us_companies, query_lower)
             THEN Returned(Lookup(us_companies, query_lower))
        ELSE LET ind == partial_match(indian_companies, query_lower, 1)
                 us == partial_match(us_companies, query_lower, 1)
             IN  IF ind.found THEN Returned(ind.symbol)
                 ELSE IF us.found THEN Returned(us.symbol)
                 ELSE suffix_probe(q, p, 1)

\* str.title(): a letter is uppercased unless the character before it is a
\* letter, in which case it is lowercased; other characters are kept
IsLetter(c) ==
    \/ \E i \in DOMAIN LowerLetters : LowerLetters[i] = c
    \/ \E i \in DOMAIN UpperLetters : UpperLetters[i] = c

title(s) ==
    [i \in DOMAIN s |->
        IF i > 1 /\ IsLetter(s[i - 1]) THEN LowerChar(s[i]) ELSE UpperChar(s[i])]

\* Python's s[:n] on a list, n possibly negative
slice_to(s, n) ==
    IF n >= 0 THEN SubSeq(s, 1, IF n < Len(s) THEN n ELSE Len(s))
    ELSE IF Len(s) + n > 0 THEN SubSeq(s, 1, Len(s) + n) ELSE << >>

DefaultLimit == 5
IndiaLabel == "India (NSE/BSE)"
UsLabel == "US (NASDAQ/NYSE)"

\* for name, symbol in table.items():
\*     if query_lower in name and len(suggestions) < limit: suggestions.append(...)
RECURSIVE collect_suggestions(_, _, _, _, _, _)
collect_suggestions(table, exchange, query_lower, lim, i, found) ==
    IF i > Len(table) THEN found
    ELSE IF IsSubstring(query_lower, table[i].name) /\ Len(found) < lim
         THEN collect_suggestions(table, exchange, query_lower, lim, i + 1,
                  Append(found, [name |-> title(table[i].name),
                                 symbol |-> table[i].symbol,
                                 exchange |-> exchange]))
         ELSE collect_suggestions(table, exchange, query_lower, lim, i + 1, found)

\* variant scanning the secondary table before the domestic one
get_suggestions_us_first(q, lim) ==
    LET query_lower == strip(lower(q))
        us == collect_suggestions(us_companies, UsLabel, query_lower, lim, 1, << >>)
        both == collect_suggestions(indian_companies, IndiaLabel, query_lower, lim, 1, us)
    IN  Returned(slice_to(both, lim))

\* get_suggestions: domestic matches, then secondary matches, suggestions[:limit]
get_suggestions(q, lim) ==
    LET query_lower == strip(lower(q))
        indian == collect_suggestions(indian_companies, IndiaLabel, query_lower, lim, 1, << >>)
        both == collect_suggestions(us_companies, UsLabel, query_lower, lim, 1, indian)
    IN  Returned(slice_to(both, lim))

ExampleQueries ==
    {<<"A", "A", "P", "L">>,
     <<"a", "a", "p", "l">>,
     <<"t", "c", "s">>,
     <<"T", "C", "S">>,
     <<"T", "c", "s">>,
     <<" ", "t", "c", "s", " ">>,
     <<"t", "a", "t", "a", " ", "c", "o", "n", "s", "u", "l", "t", "a", "n", "c", "y">>,
     <<"T", "a", "t", "a", " ", "C", "o", "n", "s", "u", "l", "t", "a", "n", "c", "y">>,
     <<"t", "a", "t", "a">>,
     <<"h", "d", "f", "c">>,
     <<"m", "a", "h", "i", "n", "d", "r", "a">>,
     <<"s", "b", "i">>,
     <<"m", "e", "t", "a">>,
     <<"a", "p", "p", "l", "e", " ", "i", "n", "c">>,
     <<"v", "i", "s", "a">>,
     <<"j", "p", " ", "m", "o", "r", "g", "a", "n">>,
     <<"x", "y", "z">>,
     <<"z", "z", " ", "t", "o", "p">>,
     <<>>,
     <<" ">>,
     <<"b", "a", "n", "k">>,
     <<"l", "&", "t">>,
     <<"\t", "t", "c", "s", "\n">>,
     <<"i", "n", "f", "y">>}

(***************************************************************************)
(* Profile values (the `info` dict).  A field is absent, None, a number    *)
(* or a non-numeric text such as the provider's 'Infinity'.  Numbers are   *)
(* in hundredths: 1200 is 12.00, 20 is 0.20, 4 is 0.04.                    *)
(***************************************************************************)
Absent == [kind |-> "absent", v |-> 0]
None == [kind |-> "none", v |-> 0]
Text == [kind |-> "text", v |-> 0]
Num(n) == [kind |-> "num", v |-> n]

\* info.get(key, 0)
get(d, key) == IF key \notin DOMAIN d \/ d[key].kind = "absent" THEN Num(0) ELSE d[key]

\* `if x:` on a value
truthy(x) == x.kind = "text" \/ (x.kind = "num" /\ x.v # 0)

\* `x < c`, `x > c` between a value and a float raise TypeError on text
compare_raises(x) == x.kind \in {"text", "none"}

(***************************************************************************)
(* Price history (hist_data): `rows` bars; the Close column is present,    *)
(* missing, or the frame has no columns at all.                            *)
(***************************************************************************)
\* DataFrame.empty: no rows or no columns
empty(df) == df.rows = 0 \/ df.columns = "none"

RECURSIVE Sum(_, _, _)
Sum(s, lo, hi) == IF lo > hi THEN 0 ELSE s[hi] + Sum(s, lo, hi - 1)

\* sum of the last `window` closes: rolling(window).mean().iloc[-1] * window
rolling_sum(close, window) == Sum(close, Len(close) - window + 1, Len(close))

\* delta = Close.diff(); the first delta is NaN and both where() calls turn it into 0
diff(close, i) == IF i = 1 THEN 0 ELSE close[i] - close[i - 1]

\* 14 * (delta.where(delta > 0, 0)).rolling(14).mean().iloc[-1]
gain_sum(close) ==
    LET g == [i \in DOMAIN close |-> IF diff(close, i) > 0 THEN diff(close, i) ELSE 0]
    IN  Sum(g, Len(close) - 13, Len(close))

\* 14 * (-delta.where(delta < 0, 0)).rolling(14).mean().iloc[-1]
loss_sum(close) ==
    LET l == [i \in DOMAIN close |-> IF diff(close, i) < 0 THEN 0 - diff(close, i) ELSE 0]
    IN  Sum(l, Len(close) - 13, Len(close))

\* rsi.iloc[-1] = 100 - 100 / (1 + gain / loss): NaN for 0 / 0, 100 when only
\* the loss is 0 (gain / 0 is inf), else 100 * gain / (gain + loss)
current_rsi(close) ==
    LET gain == gain_sum(close)
        loss == loss_sum(close)
    IN  IF gain = 0 /\ loss = 0 THEN [nan |-> TRUE, n |-> 0, d |-> 1]
        ELSE IF loss = 0 THEN [nan |-> FALSE, n |-> 100, d |-> 1]
        ELSE [nan |-> FALSE, n |-> 100 * gain, d |-> gain + loss]

(***************************************************************************)
(* get_recommendation: the six rules.  Each yields a contribution and a    *)
(* factor text, or raises.                                                 *)
(***************************************************************************)
Applied(name, delta, factor) == [raised |-> FALSE, name |-> name, delta |-> delta, factor |-> factor]
Failed(name) == [raised |-> TRUE, name |-> name]

\* Factor 1: Valuation (P/E ratio analysis)
pe_rule(inf) ==
    LET pe_ratio == get(inf, "trailingPE")
    IN  IF truthy(pe_ratio)
        THEN IF compare_raises(pe_ratio) THEN Failed("Valuation (P/E)")
             ELSE IF pe_ratio.v < 1500
                  THEN Applied("Valuation (P/E)", 2, "Undervalued (P/E < 15)")
             ELSE IF pe_ratio.v < 2500
                  THEN Applied("Valuation (P/E)", 1, "Fairly valued (P/E 15-25)")
             ELSE Applied("Valuation (P/E)", -1, "Overvalued (P/E > 25)")
        ELSE Applied("Valuation (P/E)", 0, "P/E data not available")

\* variant requiring only 20 bars (the 50-day average is then NaN and compares False)
momentum_rule_min20(hist) ==
    IF ~empty(hist) /\ hist.rows >= 20
    THEN IF hist.columns = "no_close" THEN Failed("Price Momentum")
         ELSE IF hist.close[Len(hist.close)] * 20 > rolling_sum(hist.close, 20)
              THEN Applied("Price Momentum", 1, "Positive momentum (above 20-day MA)")
              ELSE Applied("Price Momentum", 0, "Neutral momentum")
    ELSE Applied("Price Momentum", 0, "Insufficient data for momentum analysis")

\* variant testing the 50-day average before the 20-day one
momentum_rule_weak_first(hist) ==
    IF ~empty(hist) /\ hist.rows >= 50
    THEN IF hist.columns = "no_close" THEN Failed("Price Momentum")
         ELSE LET current_price == hist.close[Len(hist.close)]
                  sum_20 == rolling_sum(hist.close, 20)
                  sum_50 == rolling_sum(hist.close, 50)
              IN  IF current_price * 20 > sum_20 /\ sum_20 * 50 > sum_50 * 20
                  THEN Applied("Price Momentum", 2, "Strong uptrend (above 20-day and 50-day MA)")
                  ELSE IF current_price * 50 < sum_50
                  THEN Applied("Price Momentum", -1, "Weak momentum (below 50-day MA)")
                  ELSE IF current_price * 20 > sum_20
                  THEN Applied("Price Momentum", 1, "Positive momentum (above 20-day MA)")
                  ELSE Applied("Price Momentum", 0, "Neutral momentum")
    ELSE Applied("Price Momentum", 0, "Insufficient data for momentum analysis")

\* Factor 2: Price momentum (current price against the 20- and 50-day averages)
momentum_rule(hist) ==
    IF ~empty(hist) /\ hist.rows >= 50
    THEN IF hist.columns = "no_close" THEN Failed("Price Momentum")
         ELSE LET current_price == hist.close[Len(hist.close)]
                  sum_20 == rolling_sum(hist.close, 20)
                  sum_50 == rolling_sum(hist.close, 50)
              IN  IF current_price * 20 > sum_20 /\ sum_20 * 50 > sum_50 * 20
                  THEN Applied("Price Momentum", 2, "Strong uptrend (above 20-day and 50-day MA)")
                  ELSE IF current_price * 20 > sum_20
                  THEN Applied("Price Momentum", 1, "Positive momentum (above 20-day MA)")
                  ELSE IF current_price * 50 < sum_50
                  THEN Applied("Price Momentum", -1, "Weak momentum (below 50-day MA)")
                  ELSE Applied("Price Momentum", 0, "Neutral momentum")
    ELSE Applied("Price Momentum", 0, "Insufficient data for momentum analysis")

\* variant scoring an oversold RSI as negative
rsi_rule_inverted(hist) ==
    IF ~empty(hist) /\ hist.rows >= 14
    THEN IF hist.columns = "no_close" THEN Failed("Technical (RSI)")
         ELSE LET gain == gain_sum(hist.close)
                  loss == loss_sum(hist.close)
              IN  IF gain = 0 /\ loss = 0
                  THEN Applied("Technical (RSI)", 0, "RSI calculation not available")
                  ELSE IF 100 * gain < 30 * (gain + loss)
                  THEN Applied("Technical (RSI)", -1, "Oversold")
                  ELSE IF 100 * gain > 70 * (gain + loss)
                  THEN Applied("Technical (RSI)", 1, "Overbought")
                  ELSE Applied("Technical (RSI)", 0, "Neutral")
    ELSE Applied("Technical (RSI)", 0, "Insufficient data for RSI")

\* Factor 3: RSI analysis.  rs = gain / loss, rsi = 100 - 100 / (1 + rs):
\* NaN when both means are 0, 100 when only the loss is 0, else
\* 100 * gain / (gain + loss).
rsi_rule(hist) ==
    IF ~empty(hist) /\ hist.rows >= 14
    THEN IF hist.columns = "no_close" THEN Failed("Technical (RSI)")
         ELSE LET gain == gain_sum(hist.close)
                  loss == loss_sum(hist.close)
              IN  IF gain = 0 /\ loss = 0
                  THEN Applied("Technical (RSI)", 0, "RSI calculation not available")
                  ELSE IF 100 * gain < 30 * (gain + loss)
                  THEN Applied("Technical (RSI)", 1, "Oversold")
                  ELSE IF 100 * gain > 70 * (gain + loss)
                  THEN Applied("Technical (RSI)", -1, "Overbought")
                  ELSE Applied("Technical (RSI)", 0, "Neutral")
    ELSE Applied("Technical (RSI)", 0, "Insufficient data for RSI")

\* Factor 4: Financial health
debt_rule(inf) ==
    LET debt_to_equity == get(inf, "debtToEquity")
    IN  IF truthy(debt_to_equity)
        THEN IF compare_raises(debt_to_equity) THEN Failed("Financial Health")
             ELSE IF debt_to_equity.v < 30
                  THEN Applied("Financial Health", 1, "Strong balance sheet (low debt)")
             ELSE IF debt_to_equity.v > 100
                  THEN Applied("Financial Health", -1, "High debt levels")
             ELSE Applied("Financial Health", 0, "Moderate debt levels")
        ELSE Applied("Financial Health", 0, "Debt information not available")

\* Factor 5: Dividend yield
dividend_rule(inf) ==
    LET dividend_yield == get(inf, "dividendYield")
    IN  IF truthy(dividend_yield)
        THEN IF compare_raises(dividend_yield) THEN Failed("Dividend")
             ELSE IF dividend_yield.v > 3
                  THEN Applied("Dividend", 1, "Attractive dividend yield")
             ELSE Applied("Dividend", 0, "Moderate dividend yield")
        ELSE Applied("Dividend", 0, "No dividend or data not available")

\* Factor 6: Revenue and earnings growth
revenue_rule(inf) ==
    LET revenue_growth == get(inf, "revenueGrowth")
    IN  IF truthy(revenue_growth) /\ compare_raises(revenue_growth) THEN Failed("Revenue Growth")
        ELSE IF truthy(revenue_growth) /\ revenue_growth.v > 5
             THEN Applied("Revenue Growth", 1, "Strong revenue growth")
        ELSE IF truthy(revenue_growth) /\ revenue_growth.v < 0
             THEN Applied("Revenue Growth", -1, "Declining revenue")
        ELSE Applied("Revenue Growth", 0, "Moderate or unknown revenue growth")

\* the rules in source order
rule(i, inf, hist) ==
    CASE i = 1 -> pe_rule(inf)
      [] i = 2 -> momentum_rule(hist)
      [] i = 3 -> rsi_rule(hist)
      [] i = 4 -> debt_rule(inf)
      [] i = 5 -> dividend_rule(inf)
      [] i = 6 -> revenue_rule(inf)

\* the run of the rules up to the first one that raises: the rules applied, in order
RECURSIVE apply_rules(_, _, _, _)
apply_rules(i, inf, hist, done) ==
    IF i > 6 THEN [raised |-> FALSE, applied |-> done]
    ELSE LET r == rule(i, inf, hist)
         IN  IF r.raised THEN [raised |-> TRUE, applied |-> done]
             ELSE apply_rules(i + 1, inf, hist, Append(done, r))

\* variant keeping the running score at or above 0
RECURSIVE score_of_floored(_)
score_of_floored(applied) ==
    IF applied = << >> THEN 0
    ELSE LET running == score_of_floored(SubSeq(applied, 1, Len(applied) - 1))
                            + applied[Len(applied)].delta
         IN  IF running < 0 THEN 0 ELSE running

\* recommendation_score after the rules in `applied`
RECURSIVE score_of(_)
score_of(applied) ==
    IF applied = << >> THEN 0
    ELSE score_of(SubSeq(applied, 1, Len(applied) - 1)) + applied[Len(applied)].delta

\* the factors dict after the rules in `applied`
factors_of(applied) ==
    [name \in {applied[i].name : i \in DOMAIN applied} |->
        applied[CHOOSE i \in DOMAIN applied : applied[i].name = name].factor]

\* variant with the BUY threshold off by one
final_recommendation_off_by_one(recommendation_score) ==
    IF recommendation_score >= 4
    THEN [action |-> "STRONG BUY",
          reason |-> "Multiple positive indicators suggest strong upside potential"]
    ELSE IF recommendation_score > 2
    THEN [action |-> "BUY",
          reason |-> "Overall positive outlook with good risk-reward ratio"]
    ELSE IF recommendation_score >= 0
    THEN [action |-> "HOLD",
          reason |-> "Mixed signals suggest maintaining current position"]
    ELSE IF recommendation_score >= -2
    THEN [action |-> "WEAK SELL",
          reason |-> "Some concerning factors but not necessarily time to exit"]
    ELSE [action |-> "SELL",
          reason |-> "Multiple negative indicators suggest significant downside risk"]

\* Generate final recommendation
final_recommendation(recommendation_score) ==
    IF recommendation_score >= 4
    THEN [action |-> "STRONG BUY",
          reason |-> "Multiple positive indicators suggest strong upside potential"]
    ELSE IF recommendation_score >= 2
    THEN [action |-> "BUY",
          reason |-> "Overall positive outlook with good risk-reward ratio"]
    ELSE IF recommendation_score >= 0
    THEN [action |-> "HOLD",
          reason |-> "Mixed signals suggest maintaining current position"]
    ELSE IF recommendation_score >= -2
    THEN [action |-> "WEAK SELL",
          reason |-> "Some concerning factors but not necessarily time to exit"]
    ELSE [action |-> "SELL",
          reason |-> "Multiple negative indicators suggest significant downside risk"]

\* Risk assessment: hist_data['Close'] is read whenever the frame is not empty.
\* (The volatility figure and the risk label are not modelled.)
volatility_raises(hist) == ~empty(hist) /\ hist.columns = "no_close"

\* the except branch
error_recommendation ==
    [action |-> "HOLD",
     reason |-> "Unable to generate recommendation due to data limitations",
     score |-> 0,
     factors |-> [name \in {"Error"} |-> "Insufficient data for analysis"]]

\* variant without the try/except
get_recommendation_unguarded(inf, hist) ==
    LET run == apply_rules(1, inf, hist, << >>)
        recommendation_score == score_of(run.applied)
        final == final_recommendation(recommendation_score)
    IN  IF run.raised \/ volatility_raises(hist) THEN Raised
        ELSE Returned([action |-> final.action, reason |-> final.reason,
                       score |-> recommendation_score, factors |-> factors_of(run.applied)])

get_recommendation(inf, hist) ==
    LET run == apply_rules(1, inf, hist, << >>)
        recommendation_score == score_of(run.applied)
        final == final_recommendation(recommendation_score)
    IN  IF run.raised \/ volatility_raises(hist) THEN Returned(error_recommendation)
        ELSE Returned([action |-> final.action, reason |-> final.reason,
                       score |-> recommendation_score, factors |-> factors_of(run.applied)])


(***************************************************************************)
(* Statement frames (ticker.financials, ticker.balance_sheet): fetching    *)
(* raises or yields a frame with `columns` period columns, most recent     *)
(* first, and one row of cells per line item; a cell is a number or NaN.   *)
(* Column i carries the i-th most recent period end as its date.           *)
(***************************************************************************)
Cell(x) == [nan |-> FALSE, v |-> x]
NaN == [nan |-> TRUE, v |-> 0]

\* DataFrame.empty
frame_empty(df) == df.columns = 0 \/ DOMAIN df.rows = {}

\* Series.dropna(): the (date, value) points that are numbers, in column order
RECURSIVE dropna(_, _)
dropna(row, i) ==
    IF i > Len(row) THEN << >>
    ELSE IF row[i].nan THEN dropna(row, i + 1)
    ELSE <<[date |-> i, v |-> row[i].v]>> \o dropna(row, i + 1)

(***************************************************************************)
(* Floats that the analysis compares: a rational n/d (d > 0, reduced),     *)
(* +inf, -inf or NaN.                                                      *)
(***************************************************************************)
Abs(x) == IF x < 0 THEN 0 - x ELSE x

RECURSIVE GCD(_, _)
GCD(a, b) == IF b = 0 THEN a ELSE GCD(b, a % b)

Rat(n, d) ==
    LET g == GCD(Abs(n), Abs(d))
        s == IF d < 0 THEN -1 ELSE 1
    IN  [kind |-> "num", n |-> (s * n) \div g, d |-> (s * d) \div g]
PosInf == [kind |-> "pinf", n |-> 0, d |-> 1]
NegInf == [kind |-> "ninf", n |-> 0, d |-> 1]
NotANumber == [kind |-> "nan", n |-> 0, d |-> 1]
Unknown == [kind |-> "none", n |-> 0, d |-> 1]

RatAdd(a, b) == Rat(a.n * b.d + b.n * a.d, a.d * b.d)

\* x > p/q and x < p/q on floats (False whenever x is NaN)
greater(x, p, q) == x.kind = "pinf" \/ (x.kind = "num" /\ x.n * q > p * x.d)
less(x, p, q) == x.kind = "ninf" \/ (x.kind = "num" /\ x.n * q < p * x.d)

\* x * 100
times100(x) == IF x.kind = "num" THEN Rat(x.n * 100, x.d) ELSE x

\* one term of Series.pct_change(): x / prev - 1
pct(prev, x) ==
    IF prev # 0 THEN Rat(x - prev, prev)
    ELSE IF x > 0 THEN PosInf ELSE IF x < 0 THEN NegInf ELSE NotANumber

\* Series.pct_change().dropna(): the changes between neighbours in column order
pct_change(points) ==
    LET all == [i \in 1..(Len(points) - 1) |-> pct(points[i].v, points[i + 1].v)]
    IN  SelectSeq(all, LAMBDA t : t.kind # "nan")

RECURSIVE RatSum(_, _)
RatSum(terms, i) ==
    IF i > Len(terms) THEN Rat(0, 1)
    ELSE IF terms[i].kind = "num" THEN RatAdd(terms[i], RatSum(terms, i + 1))
    ELSE RatSum(terms, i + 1)

\* Series.mean()
mean(terms) ==
    LET hasPos == \E i \in DOMAIN terms : terms[i].kind = "pinf"
        hasNeg == \E i \in DOMAIN terms : terms[i].kind = "ninf"
        total == RatSum(terms, 1)
    IN  IF terms = << >> \/ (hasPos /\ hasNeg) THEN NotANumber
        ELSE IF hasPos THEN PosInf
        ELSE IF hasNeg THEN NegInf
        ELSE Rat(total.n, total.d * Len(terms))

\* for key in keys: if key in frame.index: ... break
RECURSIVE first_present(_, _, _)
first_present(keys, df, i) ==
    IF i > Len(keys) THEN "" 
    ELSE IF keys[i] \in DOMAIN df.rows THEN keys[i]
    ELSE first_present(keys, df, i + 1)

(***************************************************************************)
(* ProfitCompoundingAnalyzer.analyze_profit_compounding: the rules.  Each  *)
(* yields its metric, its score and the factor / warning it appends.       *)
(***************************************************************************)
Effect(metric, delta, factors, warnings) ==
    [metric |-> metric, delta |-> delta, factors |-> factors, warnings |-> warnings]
NoEffect == Effect(Unknown, 0, << >>, << >>)

\* variant computing a trend from 2 points
revenue_growth_analysis_min2(fin) ==
    IF "Total Revenue" \in DOMAIN fin.rows
    THEN LET revenues == dropna(fin.rows["Total Revenue"], 1)
         IN  IF Len(revenues) >= 2
             THEN LET avg_revenue_growth == mean(pct_change(revenues))
                  IN  IF greater(avg_revenue_growth, 5, 100)
                      THEN Effect(times100(avg_revenue_growth), 2, <<"Strong revenue growth">>, << >>)
                      ELSE IF greater(avg_revenue_growth, 0, 1)
                      THEN Effect(times100(avg_revenue_growth), 1, <<"Positive revenue growth">>, << >>)
                      ELSE Effect(times100(avg_revenue_growth), 0, << >>, <<"Declining revenue trend">>)
             ELSE NoEffect
    ELSE NoEffect

\* 1. Revenue Growth Analysis
revenue_growth_analysis(fin) ==
    IF "Total Revenue" \in DOMAIN fin.rows
    THEN LET revenues == dropna(fin.rows["Total Revenue"], 1)
         IN  IF Len(revenues) >= 3
             THEN LET avg_revenue_growth == mean(pct_change(revenues))
                  IN  IF greater(avg_revenue_growth, 5, 100)
                      THEN Effect(times100(avg_revenue_growth), 2, <<"Strong revenue growth">>, << >>)
                      ELSE IF greater(avg_revenue_growth, 0, 1)
                      THEN Effect(times100(avg_revenue_growth), 1, <<"Positive revenue growth">>, << >>)
                      ELSE Effect(times100(avg_revenue_growth), 0, << >>, <<"Declining revenue trend">>)
             ELSE NoEffect
    ELSE NoEffect

net_income_keys ==
    <<"Net Income", "Net Income Common Stockholders", "Net Income Applicable To Common Shares">>

\* variant going on to a later alias when one reports fewer than 3 points
RECURSIVE net_income_from(_, _)
net_income_from(fin, i) ==
    IF i > Len(net_income_keys) THEN [present |-> FALSE, points |-> << >>]
    ELSE IF net_income_keys[i] \in DOMAIN fin.rows
            /\ Len(dropna(fin.rows[net_income_keys[i]], 1)) >= 3
    THEN [present |-> TRUE, points |-> dropna(fin.rows[net_income_keys[i]], 1)]
    ELSE net_income_from(fin, i + 1)

net_income_of_best_alias(fin) == net_income_from(fin, 1)

\* net_income: the points of the first alias present, or None
net_income_of(fin) ==
    LET key == first_present(net_income_keys, fin, 1)
    IN  IF key = "" THEN [present |-> FALSE, points |-> << >>]
        ELSE [present |-> TRUE, points |-> dropna(fin.rows[key], 1)]

\* variant scoring excellent profit growth 4
net_income_growth_analysis_plus4(fin) ==
    LET net_income == net_income_of(fin)
    IN  IF net_income.present /\ Len(net_income.points) >= 3
        THEN LET avg_profit_growth == mean(pct_change(net_income.points))
             IN  IF greater(avg_profit_growth, 10, 100)
                 THEN Effect(times100(avg_profit_growth), 4, <<"Excellent profit growth">>, << >>)
                 ELSE IF greater(avg_profit_growth, 5, 100)
                 THEN Effect(times100(avg_profit_growth), 2, <<"Good profit growth">>, << >>)
                 ELSE IF greater(avg_profit_growth, 0, 1)
                 THEN Effect(times100(avg_profit_growth), 1, <<"Moderate profit growth">>, << >>)
                 ELSE Effect(times100(avg_profit_growth), 0, << >>, <<"Declining profitability">>)
        ELSE NoEffect

\* 2. Net Income Growth Analysis
net_income_growth_analysis(fin) ==
    LET net_income == net_income_of(fin)
    IN  IF net_income.present /\ Len(net_income.points) >= 3
        THEN LET avg_profit_growth == mean(pct_change(net_income.points))
             IN  IF greater(avg_profit_growth, 10, 100)
                 THEN Effect(times100(avg_profit_growth), 3, <<"Excellent profit growth">>, << >>)
                 ELSE IF greater(avg_profit_growth, 5, 100)
                 THEN Effect(times100(avg_profit_growth), 2, <<"Good profit growth">>, << >>)
                 ELSE IF greater(avg_profit_growth, 0, 1)
                 THEN Effect(times100(avg_profit_growth), 1, <<"Moderate profit growth">>, << >>)
                 ELSE Effect(times100(avg_profit_growth), 0, << >>, <<"Declining profitability">>)
        ELSE NoEffect

stockholder_equity_keys == <<"Stockholders Equity", "Total Stockholder Equity", "Total Equity">>

value_at(points, date) == points[CHOOSE i \in DOMAIN points : points[i].date = date].v

\* variant averaging over every common date, whatever the equity
roe_analysis_all_periods(fin, bs) ==
    LET key == first_present(stockholder_equity_keys, bs, 1)
        net_income == net_income_of(fin)
    IN  IF frame_empty(bs) \/ key = "" \/ ~net_income.present THEN NoEffect
        ELSE LET stockholder_equity == dropna(bs.rows[key], 1)
                 common_dates ==
                     SelectSeq(stockholder_equity,
                               LAMBDA e : \E i \in DOMAIN net_income.points :
                                              net_income.points[i].date = e.date)
                 positive == SelectSeq(common_dates, LAMBDA e : e.v # 0)
                 roe_values ==
                     [i \in DOMAIN positive |->
                         Rat(value_at(net_income.points, positive[i].date) * 100, positive[i].v)]
             IN  IF Len(common_dates) >= 2 /\ roe_values # << >>
                 THEN LET total == RatSum(roe_values, 1)
                          avg_roe == Rat(total.n, total.d * Len(roe_values))
                      IN  IF greater(avg_roe, 15, 1)
                          THEN Effect(avg_roe, 2, <<"High ROE">>, << >>)
                          ELSE IF greater(avg_roe, 10, 1)
                          THEN Effect(avg_roe, 1, <<"Good ROE">>, << >>)
                          ELSE IF less(avg_roe, 5, 1)
                          THEN Effect(avg_roe, 0, << >>, <<"Low return on equity">>)
                          ELSE Effect(avg_roe, 0, << >>, << >>)
                 ELSE NoEffect

\* 3. Return on Equity (ROE) Analysis
roe_analysis(fin, bs) ==
    LET key == first_present(stockholder_equity_keys, bs, 1)
        net_income == net_income_of(fin)
    IN  IF frame_empty(bs) \/ key = "" \/ ~net_income.present THEN NoEffect
        ELSE LET stockholder_equity == dropna(bs.rows[key], 1)
                 common_dates ==
                     SelectSeq(stockholder_equity,
                               LAMBDA e : \E i \in DOMAIN net_income.points :
                                              net_income.points[i].date = e.date)
                 positive == SelectSeq(common_dates, LAMBDA e : e.v > 0)
                 roe_values ==
                     [i \in DOMAIN positive |->
                         Rat(value_at(net_income.points, positive[i].date) * 100, positive[i].v)]
             IN  IF Len(common_dates) >= 2 /\ roe_values # << >>
                 THEN LET total == RatSum(roe_values, 1)
                          avg_roe == Rat(total.n, total.d * Len(roe_values))
                      IN  IF greater(avg_roe, 15, 1)
                          THEN Effect(avg_roe, 2, <<"High ROE">>, << >>)
                          ELSE IF greater(avg_roe, 10, 1)
                          THEN Effect(avg_roe, 1, <<"Good ROE">>, << >>)
                          ELSE IF less(avg_roe, 5, 1)
                          THEN Effect(avg_roe, 0, << >>, <<"Low return on equity">>)
                          ELSE Effect(avg_roe, 0, << >>, << >>)
                 ELSE NoEffect

retained_earnings_keys == <<"Retained Earnings", "Accumulated Retained Earnings">>

\* 4. Retained Earnings Analysis (only the first alias present is looked at)
retained_earnings_analysis(bs) ==
    LET key == first_present(retained_earnings_keys, bs, 1)
    IN  IF frame_empty(bs) \/ key = "" THEN NoEffect
        ELSE LET retained_earnings == dropna(bs.rows[key], 1)
             IN  IF Len(retained_earnings) >= 3
                 THEN LET avg_re_growth == mean(pct_change(retained_earnings))
                      IN  IF greater(avg_re_growth, 5, 100)
                          THEN Effect(times100(avg_re_growth), 1, <<"Growing retained earnings">>, << >>)
                          ELSE IF less(avg_re_growth, 0, 1)
                          THEN Effect(times100(avg_re_growth), 0, << >>, <<"Declining retained earnings">>)
                          ELSE Effect(times100(avg_re_growth), 0, << >>, << >>)
                 ELSE NoEffect

\* 5. Debt Management
debt_management(inf) ==
    LET debt_to_equity == get(inf, "debtToEquity")
    IN  IF truthy(debt_to_equity)
        THEN IF debt_to_equity.v < 30
             THEN Effect(Rat(debt_to_equity.v, 100), 1, <<"Conservative debt management">>, << >>)
             ELSE IF debt_to_equity.v > 100
             THEN Effect(Rat(debt_to_equity.v, 100), 0, << >>, <<"High debt levels may limit growth">>)
             ELSE Effect(Rat(debt_to_equity.v, 100), 0, << >>, << >>)
        ELSE NoEffect

\* 6. Efficiency Metrics
efficiency_metrics(inf) ==
    LET profit_margin == get(inf, "profitMargins")
    IN  IF truthy(profit_margin)
        THEN IF profit_margin.v > 15
             THEN Effect(Rat(profit_margin.v, 1), 1, <<"High profit margins">>, << >>)
             ELSE Effect(Rat(profit_margin.v, 1), 0, << >>, << >>)
        ELSE NoEffect

\* variant answering "not compounding"
get_fallback_analysis_false ==
    [is_compounding |-> "false",
     compounding_score |-> 0,
     revenue_growth |-> Unknown,
     profit_growth |-> Unknown,
     roe_trend |-> Unknown,
     retained_earnings_growth |-> Unknown,
     debt_management |-> Unknown,
     efficiency_metrics |-> Unknown,
     compounding_factors |-> << >>,
     warnings |-> <<"Insufficient financial data for compounding analysis">>]

\* _get_fallback_analysis
get_fallback_analysis ==
    [is_compounding |-> "unknown",
     compounding_score |-> 0,
     revenue_growth |-> Unknown,
     profit_growth |-> Unknown,
     roe_trend |-> Unknown,
     retained_earnings_growth |-> Unknown,
     debt_management |-> Unknown,
     efficiency_metrics |-> Unknown,
     compounding_factors |-> << >>,
     warnings |-> <<"Insufficient financial data for compounding analysis">>]

\* the analysis of fetched, non-empty fin
scorecard(fin, bs, inf) ==
    LET r1 == revenue_growth_analysis(fin)
        r2 == net_income_growth_analysis(fin)
        r3 == roe_analysis(fin, bs)
        r4 == retained_earnings_analysis(bs)
        r5 == debt_management(inf)
        r6 == efficiency_metrics(inf)
        compounding_score == r1.delta + r2.delta + r3.delta + r4.delta + r5.delta + r6.delta
    IN  [is_compounding |-> IF compounding_score >= 5 THEN "true" ELSE "false",
         compounding_score |-> compounding_score,
         revenue_growth |-> r1.metric,
         profit_growth |-> r2.metric,
         roe_trend |-> r3.metric,
         retained_earnings_growth |-> r4.metric,
         debt_management |-> r5.metric,
         efficiency_metrics |-> r6.metric,
         compounding_factors |->
             r1.factors \o r2.factors \o r3.factors \o r4.factors \o r5.factors \o r6.factors,
         warnings |->
             r1.warnings \o r2.warnings \o r3.warnings \o r4.warnings \o r5.warnings \o r6.warnings]

\* what the six rules did, in the order the code runs them; none runs when
\* the fetch raises or the income statement is empty
rules_applied(fin, bs, inf) ==
    IF fin.raises \/ bs.raises \/ frame_empty(fin) THEN << >>
    ELSE <<revenue_growth_analysis(fin), net_income_growth_analysis(fin), roe_analysis(fin, bs),
           retained_earnings_analysis(bs), debt_management(inf), efficiency_metrics(inf)>>

\* analyze_profit_compounding: an exception while fetching either statement
\* is caught by the outer try and answered with the fallback
analyze_profit_compounding(fin, bs, inf) ==
    IF fin.raises \/ bs.raises THEN Returned(get_fallback_analysis)
    ELSE IF frame_empty(fin) THEN Returned(get_fallback_analysis)
    ELSE Returned(scorecard(fin, bs, inf))

(***************************************************************************)
(* Valuation (valuation.py).  Its arithmetic is binary floating point:     *)
(* a number is sign * m * 2^e with a significand m of MantissaBits bits    *)
(* (binary64 has 53), and every operation returns the exact result rounded *)
(* to the nearest such number, ties to even.  The exponent is unbounded.   *)
(***************************************************************************)
MantissaBits == 5

RECURSIVE Pow2(_)
Pow2(k) == IF k = 0 THEN 1 ELSE 2 * Pow2(k - 1)

RECURSIVE IntPow(_, _)
IntPow(b, k) == IF k = 0 THEN 1 ELSE b * IntPow(b, k - 1)

Float(s, m, e) == [s |-> s, m |-> m, e |-> e]
FloatZero == Float(1, 0, 0)

\* significands of non-zero numbers lie in MantissaMin..(MantissaLimit - 1)
MantissaMin == Pow2(MantissaBits - 1)
MantissaLimit == Pow2(MantissaBits)

\* the float nearest to s * (n / d) * 2^e, for integers n > 0 and d > 0
RECURSIVE round_to_float(_, _, _, _)
round_to_float(s, n, d, e) ==
    IF n < MantissaMin * d THEN round_to_float(s, 2 * n, d, e - 1)
    ELSE IF n >= MantissaLimit * d THEN round_to_float(s, n, 2 * d, e + 1)
    ELSE LET q == n \div d
             r == n % d
             up == 2 * r > d \/ (2 * r = d /\ q % 2 = 1)
             m == IF up THEN q + 1 ELSE q
         IN  IF m = MantissaLimit THEN Float(s, MantissaMin, e + 1)
             ELSE Float(s, m, e)

\* a literal such as 0.05 (5/100), 22.5 (225/10) or 25 (25/1)
float_of(n, d) ==
    IF n = 0 THEN FloatZero
    ELSE IF n < 0 THEN round_to_float(0 - 1, 0 - n, d, 0)
    ELSE round_to_float(1, n, d, 0)

is_zero(x) == x.m = 0
is_negative(x) == x.m # 0 /\ x.s < 0
\* x <= 0
not_positive(x) == is_zero(x) \/ is_negative(x)

\* x * y
fmul(x, y) ==
    IF is_zero(x) \/ is_zero(y) THEN FloatZero
    ELSE round_to_float(x.s * y.s, x.m * y.m, 1, x.e + y.e)

\* x / y, y not zero
fdiv(x, y) ==
    IF is_zero(x) THEN FloatZero
    ELSE round_to_float(x.s * y.s, x.m, y.m, x.e - y.e)

\* x + y
fadd(x, y) ==
    IF is_zero(x) THEN y
    ELSE IF is_zero(y) THEN x
    ELSE LET big == IF x.e >= y.e THEN x ELSE y
             small == IF x.e >= y.e THEN y ELSE x
             gap == big.e - small.e
         IN  IF gap > MantissaBits + 2 THEN big
             ELSE LET total == big.s * big.m * Pow2(gap) + small.s * small.m
                  IN  IF total = 0 THEN FloatZero
                      ELSE IF total < 0 THEN round_to_float(0 - 1, 0 - total, 1, small.e)
                      ELSE round_to_float(1, total, 1, small.e)

\* x - y
fsub(x, y) == fadd(x, Float(0 - y.s, y.m, y.e))

\* x ** k for a small whole k >= 1
fpow(x, k) ==
    IF is_zero(x) THEN FloatZero
    ELSE round_to_float(IF k % 2 = 0 THEN 1 ELSE x.s, IntPow(x.m, k), 1, x.e * k)

\* x ** 0.5 for x > 0: the square root of m * 2^e, through the whole root of
\* m scaled by an even power of two and a sticky bit for what is left over
fsqrt(x) ==
    LET shift == 2 * MantissaBits + (IF (x.e % 2) = 0 THEN 0 ELSE 1)
        radicand == x.m * Pow2(shift)
        root == CHOOSE r \in 0..Pow2(2 * MantissaBits) :
                    r * r <= radicand /\ radicand < (r + 1) * (r + 1)
        sticky == IF root * root = radicand THEN 0 ELSE 1
    IN  round_to_float(1, 2 * root + sticky, 2, (x.e - shift) \div 2)

\* x < y
fless(x, y) ==
    IF is_zero(y) THEN is_negative(x)
    ELSE IF is_zero(x) THEN ~is_negative(y)
    ELSE IF x.s # y.s THEN x.s < y.s
    ELSE IF x.s > 0 THEN x.e < y.e \/ (x.e = y.e /\ x.m < y.m)
    ELSE y.e < x.e \/ (x.e = y.e /\ y.m < x.m)

\* profile values of the valuation functions: the number of a numeric
\* value, the content of a text value
FAbsent == [kind |-> "absent", v |-> FloatZero, text |-> ""]
FNone == [kind |-> "none", v |-> FloatZero, text |-> ""]
FNum(x) == [kind |-> "num", v |-> x, text |-> ""]
Str(name) == [kind |-> "text", v |-> FloatZero, text |-> name]
\* a cell of the cash-flow statement that holds no number
FNaN == [nan |-> TRUE, v |-> FloatZero]

\* info.get(key, 0)
info_get(d, key) ==
    IF key \notin DOMAIN d \/ d[key].kind = "absent" THEN FNum(FloatZero) ELSE d[key]

\* `not x`: None and zero are false, a non-empty text is true
falsy(x) == x.kind = "none" \/ (x.kind = "num" /\ is_zero(x.v))


growth_rate == float_of(5, 100)
discount_rate == float_of(10, 100)
terminal_growth == float_of(2, 100)
ProjectionYears == 5

\* (1 + growth_rate) ** year and (1 + discount_rate) ** year
growth_factor == [year \in 1..ProjectionYears |-> fpow(fadd(float_of(1, 1), growth_rate), year)]
discount_factor == [year \in 1..ProjectionYears |-> fpow(fadd(float_of(1, 1), discount_rate), year)]

\* for year in range(1, 6): pv_fcf += recent_fcf * (1 + growth_rate) ** year
\*                                       / (1 + discount_rate) ** year
RECURSIVE present_value_of_projected(_, _, _)
present_value_of_projected(recent_fcf, year, pv_fcf) ==
    IF year > ProjectionYears THEN pv_fcf
    ELSE LET projected_fcf == fmul(recent_fcf, growth_factor[year])
             discounted == fdiv(projected_fcf, discount_factor[year])
         IN  present_value_of_projected(recent_fcf, year + 1, fadd(pv_fcf, discounted))

\* 1 + terminal_growth and discount_rate - terminal_growth
terminal_factor == fadd(float_of(1, 1), terminal_growth)
terminal_spread == fsub(discount_rate, terminal_growth)

\* pv_fcf + pv_terminal
enterprise_value(recent_fcf) ==
    LET terminal_fcf ==
            fmul(fmul(recent_fcf, growth_factor[ProjectionYears]), terminal_factor)
        terminal_value == fdiv(terminal_fcf, terminal_spread)
        pv_fcf == present_value_of_projected(recent_fcf, 1, FloatZero)
        pv_terminal == fdiv(terminal_value, discount_factor[ProjectionYears])
    IN  fadd(pv_fcf, pv_terminal)

CapexShare == float_of(5, 100)

\* variant taking the operating cash flow as it is
recent_free_cash_flow_no_capex(cf, inf) ==
    IF "Free Cash Flow" \in DOMAIN cf.rows
    THEN [raised |-> FALSE, cell |-> cf.rows["Free Cash Flow"][1]]
    ELSE [raised |-> FALSE, cell |-> cf.rows["Operating Cash Flow"][1]]

\* the most recent free cash flow: the 'Free Cash Flow' line, else
\* 'Operating Cash Flow' less 5% of totalRevenue; .iloc[0] is the first column
recent_free_cash_flow(cf, inf) ==
    IF "Free Cash Flow" \in DOMAIN cf.rows
    THEN [raised |-> FALSE, cell |-> cf.rows["Free Cash Flow"][1]]
    ELSE LET operating_cf == cf.rows["Operating Cash Flow"][1]
             revenue == info_get(inf, "totalRevenue")
         IN  IF falsy(revenue)
             THEN [raised |-> FALSE, cell |-> operating_cf]
             ELSE IF revenue.kind = "text" THEN [raised |-> TRUE]
             ELSE IF operating_cf.nan THEN [raised |-> FALSE, cell |-> FNaN]
             ELSE [raised |-> FALSE,
                   cell |-> Cell(fsub(operating_cf.v, fmul(revenue.v, CapexShare)))]

\* variant dividing the shares by the enterprise value
dcf_value_inverted(cf, inf) ==
    IF cf.raises THEN Raised
    ELSE IF frame_empty(cf) THEN Returned(FNone)
    ELSE IF "Free Cash Flow" \notin DOMAIN cf.rows /\ "Operating Cash Flow" \notin DOMAIN cf.rows
         THEN Returned(FNone)
    ELSE LET recent_fcf == recent_free_cash_flow(cf, inf)
             shares_outstanding == info_get(inf, "sharesOutstanding")
         IN  IF recent_fcf.raised THEN Raised
             ELSE IF recent_fcf.cell.nan \/ not_positive(recent_fcf.cell.v) THEN Returned(FNone)
             ELSE IF falsy(shares_outstanding) THEN Returned(FNone)
             ELSE IF shares_outstanding.kind = "text" THEN Raised
             ELSE Returned(FNum(fdiv(shares_outstanding.v, enterprise_value(recent_fcf.cell.v))))

\* the body of calculate_dcf_value's try block
dcf_value(cf, inf) ==
    IF cf.raises THEN Raised
    ELSE IF frame_empty(cf) THEN Returned(FNone)
    ELSE IF "Free Cash Flow" \notin DOMAIN cf.rows /\ "Operating Cash Flow" \notin DOMAIN cf.rows
         THEN Returned(FNone)
    ELSE LET recent_fcf == recent_free_cash_flow(cf, inf)
             shares_outstanding == info_get(inf, "sharesOutstanding")
         IN  IF recent_fcf.raised THEN Raised
             ELSE IF recent_fcf.cell.nan \/ not_positive(recent_fcf.cell.v) THEN Returned(FNone)
             ELSE IF falsy(shares_outstanding) THEN Returned(FNone)
             ELSE IF shares_outstanding.kind = "text" THEN Raised
             ELSE Returned(FNum(fdiv(enterprise_value(recent_fcf.cell.v), shares_outstanding.v)))

\* calculate_dcf_value: None on any exception
calculate_dcf_value(cf, inf) ==
    LET value == dcf_value(cf, inf)
    IN  IF value.raised THEN Returned(FNone) ELSE value

sector_pe_estimates ==
    [sector \in {"Technology", "Healthcare", "Financial Services", "Consumer Cyclical",
                 "Consumer Defensive", "Energy", "Utilities", "Real Estate", "Materials",
                 "Industrials", "Communication Services"} |->
        CASE sector = "Technology" -> 25
          [] sector = "Healthcare" -> 20
          [] sector = "Financial Services" -> 12
          [] sector = "Consumer Cyclical" -> 18
          [] sector = "Consumer Defensive" -> 22
          [] sector = "Energy" -> 15
          [] sector = "Utilities" -> 16
          [] sector = "Real Estate" -> 20
          [] sector = "Materials" -> 16
          [] sector = "Industrials" -> 18
          [] sector = "Communication Services" -> 20]

\* sector_pe_estimates.get(info.get('sector', 'Technology'), 20)
benchmark_pe_of(inf) ==
    LET sector == IF "sector" \notin DOMAIN inf \/ inf["sector"].kind = "absent"
                  THEN Str("Technology") ELSE inf["sector"]
    IN  IF sector.kind = "text" /\ sector.text \in DOMAIN sector_pe_estimates
        THEN sector_pe_estimates[sector.text] ELSE 20

\* the body of calculate_pe_valuation's try block
pe_valuation(inf) ==
    LET eps == info_get(inf, "trailingEps")
        current_pe == info_get(inf, "trailingPE")
    IN  IF falsy(eps) THEN Returned(FNone)
        ELSE IF eps.kind = "text" THEN Raised
        ELSE IF not_positive(eps.v) THEN Returned(FNone)
        ELSE IF falsy(current_pe) THEN Returned(FNone)
        ELSE Returned(FNum(fmul(eps.v, float_of(benchmark_pe_of(inf), 1))))

\* variant without the try/except: a TypeError propagates
calculate_pe_valuation_unguarded(inf) == pe_valuation(inf)

\* calculate_pe_valuation: None on any exception
calculate_pe_valuation(inf) ==
    LET value == pe_valuation(inf)
    IN  IF value.raised THEN Returned(FNone) ELSE value

GrahamMultiplier == float_of(225, 10)

\* the body of calculate_graham_number's try block
graham_number(inf) ==
    LET eps == info_get(inf, "trailingEps")
        book_value_per_share == info_get(inf, "bookValue")
    IN  IF falsy(eps) \/ falsy(book_value_per_share) THEN Returned(FNone)
        ELSE IF eps.kind = "text" THEN Raised
        ELSE IF not_positive(eps.v) THEN Returned(FNone)
        ELSE IF book_value_per_share.kind = "text" THEN Raised
        ELSE IF not_positive(book_value_per_share.v) THEN Returned(FNone)
        ELSE Returned(FNum(fsqrt(fmul(fmul(GrahamMultiplier, eps.v), book_value_per_share.v))))

\* calculate_graham_number: None on any exception
calculate_graham_number(inf) ==
    LET value == graham_number(inf)
    IN  IF value.raised THEN Returned(FNone) ELSE value

Hundred == float_of(100, 1)

\* the body of calculate_peg_ratio's try block
peg_ratio(inf) ==
    LET pe_ratio == info_get(inf, "trailingPE")
        growth_rate_value == info_get(inf, "earningsGrowth")
    IN  IF falsy(pe_ratio) \/ falsy(growth_rate_value) THEN Returned(FNone)
        ELSE IF growth_rate_value.kind = "text" THEN Raised
        ELSE IF not_positive(growth_rate_value.v) THEN Returned(FNone)
        ELSE IF pe_ratio.kind = "text" THEN Raised
        ELSE Returned(FNum(fdiv(pe_ratio.v, fmul(growth_rate_value.v, Hundred))))

\* calculate_peg_ratio: None on any exception
calculate_peg_ratio(inf) ==
    LET value == peg_ratio(inf)
    IN  IF value.raised THEN Returned(FNone) ELSE value

(***************************************************************************)
(* Inputs of the compounding specification.  Profile values of the two     *)
(* fields read here are numbers, None or absent.                           *)
(***************************************************************************)
MaxPeriods == 3

NoFrame == [raises |-> FALSE, columns |-> 0, rows |-> << >>]
FetchFails == [raises |-> TRUE, columns |-> 0, rows |-> << >>]

\* a row of n cells starting at `base` and moving by `step` per column
Line(n, base, step) == [i \in 1..n |-> Cell(base + step * (i - 1))]
\* the same row with the most recent period not reported
LineWithHole(n, base, step) == [i \in 1..n |-> IF i = 1 THEN NaN ELSE Cell(base + step * (i - 1))]

Rows(names, row) == [name \in names |-> row]

Statement(n, rows) == [raises |-> FALSE, columns |-> n, rows |-> rows]

RevenueRows(n) ==
    {<< >>} \cup {Rows({"Total Revenue"}, Line(n, 40, s)) : s \in {-3, 1, 3}}
           \cup {Rows({"Total Revenue"}, Line(n, 0, 0))}

NetIncomeRows(n) ==
    {<< >>} \cup {Rows({"Net Income"}, Line(n, 40, s)) : s \in {-3, 1, 3, 6}}
           \cup {Rows({"Net Income Common Stockholders"}, Line(n, 40, 6)),
                 Rows({"Net Income Applicable To Common Shares"}, LineWithHole(n, 40, 6)),
                 Rows({"Net Income"}, Line(n, 40, -3))
                     @@ Rows({"Net Income Common Stockholders"}, Line(n, 40, 6))}

EquityRows(n) ==
    {<< >>} \cup {Rows({"Stockholders Equity"}, Line(n, e, 0)) : e \in {200, 350, 1000, -100}}
           \cup {Rows({"Total Equity"}, LineWithHole(n, 500, 0))}

RetainedRows(n) ==
    {<< >>} \cup {Rows({"Retained Earnings"}, Line(n, 40, s)) : s \in {-3, 3}}
           \cup {Rows({"Accumulated Retained Earnings"}, Line(n, 40, 3))}

\* fetched frames of n period columns: an unrelated line and the chosen lines
FetchedFinancials(n) ==
    {[raises |-> FALSE, columns |-> n, rows |-> Rows({"EBIT"}, Line(n, 50, 0)) @@ rev @@ ni] :
        rev \in RevenueRows(n), ni \in NetIncomeRows(n)}

FetchedBalanceSheets(n) ==
    {[raises |-> FALSE, columns |-> n, rows |-> Rows({"Total Assets"}, Line(n, 900, 0)) @@ eq @@ re] :
        eq \in EquityRows(n), re \in RetainedRows(n)}

CompProfiles ==
    {[debtToEquity |-> de, profitMargins |-> pm] :
        de \in {Absent, Num(0), Num(20), Num(150)}, pm \in {Absent, Num(20), Num(10)}}

\* both statements fetched for the same periods (the balance sheet possibly
\* empty), the income statement empty, or a fetch that raises
CompInputs ==
    UNION {FetchedFinancials(n) \X (FetchedBalanceSheets(n) \cup {NoFrame}) \X CompProfiles :
              n \in 1..MaxPeriods}
        \cup ({NoFrame} \X ({NoFrame} \cup FetchedBalanceSheets(MaxPeriods)) \X CompProfiles)
        \cup ({FetchFails} \X {NoFrame} \X CompProfiles)
        \cup (FetchedFinancials(MaxPeriods) \X {FetchFails} \X CompProfiles)

(***************************************************************************)
(* Inputs of the recommendation specification.                             *)
(***************************************************************************)
InfoKeys == {"trailingPE", "debtToEquity", "dividendYield", "revenueGrowth"}
NoInfo == [k \in InfoKeys |-> Absent]
NoHistory == [rows |-> 0, columns |-> "none", close |-> << >>]

Profiles ==
    {[trailingPE |-> pe, debtToEquity |-> de, dividendYield |-> dy, revenueGrowth |-> rg] :
        pe \in {Absent, Text, Num(1200), Num(2000), Num(3000)},
        de \in {Absent, Text, Num(20), Num(150)},
        dy \in {Absent, Text, Num(4), Num(2)},
        rg \in {Absent, Text, Num(8), Num(-2)}}

MaxBars == 52

\* <<a, b, c>>: the close moves by a per bar up to the 14th bar from the end,
\* then alternately by b and c
Shapes ==
    {<<20, -3, 1>>, <<1, 1, 1>>, <<-1, -1, -1>>, <<0, 0, 0>>,
     <<-20, 3, -1>>, <<-1, 1, 1>>, <<1, -1, 0>>, <<0, 1, -1>>}

ClosePrices(n, shape) ==
    LET switch == IF n > 14 THEN n - 14 ELSE 1
    IN  [i \in 1..n |->
            IF i <= switch THEN 2000 + shape[1] * (i - 1)
            ELSE 2000 + shape[1] * (switch - 1)
                      + shape[2] * ((i - switch + 1) \div 2) + shape[3] * ((i - switch) \div 2)]

Lengths == {n \in 0..MaxBars : n <= 1 \/ (n >= 13 /\ n <= 15) \/ n >= 48}

HistoriesOf(lengths) ==
    {[rows |-> n, columns |-> "all", close |-> ClosePrices(n, s)] : n \in lengths, s \in Shapes}
        \cup {[rows |-> n, columns |-> c, close |-> << >>] : n \in lengths, c \in {"no_close", "none"}}

\* every profile with the histories of the lengths around 0, 14 and 50 bars,
\* and a few profiles with the histories of every length
CoreProfiles ==
    {NoInfo,
     [trailingPE |-> Num(1200), debtToEquity |-> Num(20), dividendYield |-> Num(4), revenueGrowth |-> Num(8)],
     [trailingPE |-> Num(3000), debtToEquity |-> Num(150), dividendYield |-> Num(2), revenueGrowth |-> Num(-2)],
     [trailingPE |-> Num(2000), debtToEquity |-> Absent, dividendYield |-> Absent, revenueGrowth |-> Text]}

\* profiles at and around the thresholds of the P/E and leverage rules,
\* with values that are present and zero, or present and None
BoundaryProfiles ==
    {[trailingPE |-> pe, debtToEquity |-> de, dividendYield |-> Num(2), revenueGrowth |-> Absent] :
        pe \in {None, Num(0), Num(0 - 500), Num(1499), Num(1500), Num(2499), Num(2500), Num(2501)},
        de \in {None, Num(0), Num(29), Num(30), Num(100), Num(101)}}

RecInputs ==
    (Profiles \X HistoriesOf(Lengths)) \cup (CoreProfiles \X HistoriesOf(0..MaxBars))
        \cup (BoundaryProfiles \X HistoriesOf({0, MaxBars}))


(***************************************************************************)
(* economic_indicators.py: EconomicAnalyzer.analyze_economic_impact_on_stock*)
(* A reading is what a getter put under its key: None in the fallback or   *)
(* for an empty series, a number (in hundredths of a percent point), or    *)
(* NaN when pct_change had no earlier period to compare with.              *)
(***************************************************************************)
NanReading == [kind |-> "nan", v |-> 0]

\* `if reading:` -- None and 0.0 are false, NaN and any other number true
reading_truthy(x) == x.kind = "nan" \/ truthy(x)

\* `reading > c`, `reading < c`: every comparison with NaN is false
reading_gt(x, c) == x.kind = "num" /\ x.v > c
reading_lt(x, c) == x.kind = "num" /\ x.v < c
reading_between(x, lo, hi) == x.kind = "num" /\ lo <= x.v /\ x.v <= hi

GdpStrong == "Strong GDP growth supports consumer spending and business investment"
GdpContraction == "GDP contraction may reduce corporate earnings"
InflationHigh == "High inflation may pressure profit margins and consumer spending"
InflationModerate == "Moderate inflation indicates healthy economic growth"
RatesHelpFinancials == "Higher interest rates benefit financial sector margins"
RatesPressureSensitive == "High interest rates may pressure rate-sensitive sectors"
RatesPressureTech == "Higher rates may reduce tech valuations and growth investments"

\* the dict impact_analysis starts as
impact_analysis_init ==
    [overall_economic_sentiment |-> "Neutral",
     gdp_impact |-> "Neutral",
     inflation_impact |-> "Neutral",
     interest_rate_impact |-> "Neutral",
     sector_specific_impact |-> "Neutral",
     recommendations |-> << >>]

\* "Analyze GDP impact"
gdp_step(ia, gdp_growth) ==
    IF ~reading_truthy(gdp_growth) THEN ia
    ELSE IF reading_gt(gdp_growth, 200)
         THEN [ia EXCEPT !.gdp_impact = "Positive",
                         !.recommendations = Append(@, GdpStrong)]
    ELSE IF reading_lt(gdp_growth, 0)
         THEN [ia EXCEPT !.gdp_impact = "Negative",
                         !.recommendations = Append(@, GdpContraction)]
    ELSE ia

\* "Analyze inflation impact"
inflation_step(ia, inflation_rate) ==
    IF ~reading_truthy(inflation_rate) THEN ia
    ELSE IF reading_gt(inflation_rate, 400)
         THEN [ia EXCEPT !.inflation_impact = "Negative",
                         !.recommendations = Append(@, InflationHigh)]
    ELSE IF reading_between(inflation_rate, 200, 300)
         THEN [ia EXCEPT !.inflation_impact = "Positive",
                         !.recommendations = Append(@, InflationModerate)]
    ELSE ia

\* "Analyze interest rate impact based on sector"
interest_step(ia, fed_funds_rate, sector) ==
    IF ~reading_truthy(fed_funds_rate) THEN ia
    ELSE IF sector \in {"Financial Services", "Banking"}
         THEN IF reading_gt(fed_funds_rate, 300)
              THEN [ia EXCEPT !.interest_rate_impact = "Positive",
                              !.sector_specific_impact = "Positive",
                              !.recommendations = Append(@, RatesHelpFinancials)]
              ELSE ia
    ELSE IF sector \in {"Real Estate", "Utilities", "REITs"}
         THEN IF reading_gt(fed_funds_rate, 400)
              THEN [ia EXCEPT !.interest_rate_impact = "Negative",
                              !.sector_specific_impact = "Negative",
                              !.recommendations = Append(@, RatesPressureSensitive)]
              ELSE ia
    ELSE IF sector = "Technology"
         THEN IF reading_gt(fed_funds_rate, 400)
              THEN [ia EXCEPT !.interest_rate_impact = "Negative",
                              !.recommendations = Append(@, RatesPressureTech)]
              ELSE ia
    ELSE ia

Sensitivity(gdp, inflation, interest, unemployment) ==
    [gdp_sensitivity |-> gdp, inflation_sensitivity |-> inflation,
     interest_sensitivity |-> interest, unemployment_sensitivity |-> unemployment]

\* sector_sensitivities.get(sector, {... all 'Medium' ...})
sector_sensitivity(sector) ==
    CASE sector = "Consumer Cyclical" -> Sensitivity("High", "High", "Medium", "High")
      [] sector = "Technology" -> Sensitivity("Medium", "Medium", "High", "Low")
      [] sector = "Financial Services" -> Sensitivity("High", "Medium", "High", "High")
      [] sector = "Healthcare" -> Sensitivity("Low", "Low", "Low", "Low")
      [] sector = "Energy" -> Sensitivity("High", "High", "Medium", "Medium")
      [] sector = "Utilities" -> Sensitivity("Low", "Medium", "High", "Low")
      [] OTHER -> Sensitivity("Medium", "Medium", "Medium", "Medium")

\* sum(1 for impact in [...] if impact == which)
factors(impacts, which) == Cardinality({i \in DOMAIN impacts : impacts[i] = which})

\* variant counting the sector-specific impact as a fourth factor
overall_economic_sentiment_with_sector(ia) ==
    LET impacts == <<ia.gdp_impact, ia.inflation_impact, ia.interest_rate_impact,
                     ia.sector_specific_impact>>
        positive_factors == factors(impacts, "Positive")
        negative_factors == factors(impacts, "Negative")
    IN  IF positive_factors > negative_factors THEN "Positive"
        ELSE IF negative_factors > positive_factors THEN "Negative"
        ELSE ia.overall_economic_sentiment

\* "Calculate overall economic sentiment"
overall_economic_sentiment(ia) ==
    LET impacts == <<ia.gdp_impact, ia.inflation_impact, ia.interest_rate_impact>>
        positive_factors == factors(impacts, "Positive")
        negative_factors == factors(impacts, "Negative")
    IN  IF positive_factors > negative_factors THEN "Positive"
        ELSE IF negative_factors > positive_factors THEN "Negative"
        ELSE ia.overall_economic_sentiment

analyze_economic_impact_on_stock(eco) ==
    LET ia1 == gdp_step(impact_analysis_init, eco.gdp_growth)
        ia2 == inflation_step(ia1, eco.inflation_rate)
        ia3 == interest_step(ia2, eco.fed_funds_rate, eco.sector)
    IN  Returned([impact_analysis |->
                      [ia3 EXCEPT !.overall_economic_sentiment = overall_economic_sentiment(ia3)],
                  sector_sensitivity |-> sector_sensitivity(eco.sector)])

\* the getters' fallback: every reading None
NoEconomy ==
    [gdp_growth |-> None, inflation_rate |-> None, fed_funds_rate |-> None, sector |-> "Unknown"]

(***************************************************************************)
(* Inputs of the symbol-resolution specification.                          *)
(***************************************************************************)
MaxQueryLen == 2
QueryAlphabet == {"t", "c", "s", "T", " "}

RECURSIVE TextsUpTo(_)
TextsUpTo(n) ==
    IF n = 0 THEN {<< >>}
    ELSE LET shorter == TextsUpTo(n - 1)
         IN  shorter \cup {Append(t, c) : t \in {u \in shorter : Len(u) = n - 1}, c \in QueryAlphabet}

Queries == ExampleQueries \cup TextsUpTo(MaxQueryLen)

Probes == [1..(1 + Len(IndianExchangesInit)) -> InfoOutcomes]

InitSearch ==
    /\ indian_exchanges = IndianExchangesInit
    /\ indian_companies = IndianCompaniesInit
    /\ us_companies = UsCompaniesInit
    /\ session = << >>
    /\ query \in Queries
    /\ probe \in Probes
    /\ result = NotCalled
    /\ info = NoInfo /\ hist_data = NoHistory
    /\ rec_applied = << >> /\ rec_result = NotCalled
    /\ financials = NoFrame /\ balance_sheet = NoFrame /\ comp_result = NotCalled
    /\ compounding_tab = NotCalled /\ comp_applied = << >>
    /\ limit = DefaultLimit /\ suggestions = NotCalled
    /\ cash_flow = NoFrame /\ valuation = NoValuation
    /\ economy = NoEconomy /\ economic_analysis = NotCalled

\* one call of search_company(query) against the gateway behaviour `probe`
SearchCompany ==
    /\ result = NotCalled
    /\ result' = search_company(query, probe)
    /\ UNCHANGED <<indian_exchanges, indian_companies, us_companies, query, probe, session>>
    /\ UNCHANGED <<rec_vars, comp_vars, sugg_vars, val_vars, econ_vars>>

NextSearch == SearchCompany

SpecSearch == InitSearch /\ [][NextSearch]_vars


(***************************************************************************)
(* Inputs of the suggestion specification.                                 *)
(***************************************************************************)
MaxLimit == 6
Limits == (0 - 1)..MaxLimit

SuggestionQueries ==
    Queries \cup {<<"b", "a", "n", "k">>, <<"m", "e">>, <<"M", "E">>, <<"c", "o">>,
                  <<"m", "o", "r", "g", "a", "n">>, <<"'", "s">>, <<" ", "m", "c", " ">>}

InitSuggest ==
    /\ indian_exchanges = IndianExchangesInit
    /\ indian_companies = IndianCompaniesInit
    /\ us_companies = UsCompaniesInit
    /\ session = << >>
    /\ query \in SuggestionQueries
    /\ probe = [i \in 1..(1 + Len(IndianExchangesInit)) |-> "none"]
    /\ result = NotCalled
    /\ info = NoInfo /\ hist_data = NoHistory
    /\ rec_applied = << >> /\ rec_result = NotCalled
    /\ financials = NoFrame /\ balance_sheet = NoFrame /\ comp_result = NotCalled
    /\ compounding_tab = NotCalled /\ comp_applied = << >>
    /\ limit \in Limits
    /\ suggestions = NotCalled
    /\ cash_flow = NoFrame /\ valuation = NoValuation
    /\ economy = NoEconomy /\ economic_analysis = NotCalled

\* one call of get_suggestions(query, limit)
GetSuggestions ==
    /\ suggestions = NotCalled
    /\ suggestions' = get_suggestions(query, limit)
    /\ UNCHANGED <<search_vars, rec_vars, comp_vars, limit, val_vars, econ_vars>>

NextSuggest == GetSuggestions

SpecSuggest == InitSuggest /\ [][NextSuggest]_vars

(***************************************************************************)
(* A session: app.py keeps one CompanySearcher in st.session_state and     *)
(* every rerun calls get_suggestions and search_company on it.             *)
(***************************************************************************)
MaxCalls == 2

SessionQueries ==
    {<<"t", "c", "s">>, <<"b", "a", "n", "k">>, <<"x", "y">>, <<"A", "A", "P", "L">>}

NoProbe == [i \in 1..(1 + Len(IndianExchangesInit)) |-> "none"]

SessionProbes ==
    {NoProbe,
     [NoProbe EXCEPT ![1] = "has_symbol"],
     [NoProbe EXCEPT ![2] = "has_symbol"],
     [NoProbe EXCEPT ![1] = "raise", ![3] = "has_symbol"]}

SessionLimits == {1, DefaultLimit}

\* a variant that remembers the symbol it resolved a new name to
searcher_remembering(q, outcome) ==
    LET query_lower == strip(lower(q))
        known == HasKey(indian_companies, query_lower) \/ HasKey(us_companies, query_lower)
    IN  [indian_exchanges |-> indian_exchanges,
         indian_companies |-> indian_companies,
         us_companies |->
             IF outcome.raised \/ known THEN us_companies
             ELSE Append(us_companies, [name |-> query_lower, symbol |-> outcome.value])]

\* the searcher's attributes after search_company(q) gave `outcome`:
\* neither method assigns to self or mutates a table or the suffix list
searcher_after(q, outcome) ==
    [indian_exchanges |-> indian_exchanges,
     indian_companies |-> indian_companies,
     us_companies |-> us_companies]

InitSession ==
    /\ indian_exchanges = IndianExchangesInit
    /\ indian_companies = IndianCompaniesInit
    /\ us_companies = UsCompaniesInit
    /\ session = << >>
    /\ query = << >> /\ probe = NoProbe /\ result = NotCalled
    /\ info = NoInfo /\ hist_data = NoHistory
    /\ rec_applied = << >> /\ rec_result = NotCalled
    /\ financials = NoFrame /\ balance_sheet = NoFrame /\ comp_result = NotCalled
    /\ compounding_tab = NotCalled /\ comp_applied = << >>
    /\ limit = DefaultLimit /\ suggestions = NotCalled
    /\ cash_flow = NoFrame /\ valuation = NoValuation
    /\ economy = NoEconomy /\ economic_analysis = NotCalled

\* one more search_company call on the session's searcher
SessionSearch ==
    /\ Len(session) < MaxCalls
    /\ \E q \in SessionQueries, p \in SessionProbes :
          LET outcome == search_company(q, p)
              after == searcher_after(q, outcome)
          IN  /\ query' = q /\ probe' = p /\ result' = outcome
              /\ indian_exchanges' = after.indian_exchanges
              /\ indian_companies' = after.indian_companies
              /\ us_companies' = after.us_companies
              /\ session' = Append(session,
                     [call |-> "search_company", query |-> q, probe |-> p,
                      limit |-> DefaultLimit, outcome |-> outcome])
    /\ UNCHANGED <<rec_vars, comp_vars, sugg_vars, val_vars, econ_vars>>

\* one more get_suggestions call on the session's searcher
SessionSuggest ==
    /\ Len(session) < MaxCalls
    /\ \E q \in SessionQueries, lim \in SessionLimits :
          LET outcome == get_suggestions(q, lim)
          IN  /\ limit' = lim /\ suggestions' = outcome
              /\ session' = Append(session,
                     [call |-> "get_suggestions", query |-> q, probe |-> NoProbe,
                      limit |-> lim, outcome |-> outcome])
    /\ UNCHANGED <<indian_exchanges, indian_companies, us_companies, query, probe, result>>
    /\ UNCHANGED <<rec_vars, comp_vars, val_vars, econ_vars>>

NextSession == SessionSearch \/ SessionSuggest

SpecSession == InitSession /\ [][NextSession]_vars

(***************************************************************************)
(* Inputs of the valuation specification.  A profile field is absent,      *)
(* None, a text, or a number (zero, negative or positive).                 *)
(***************************************************************************)
ValKeys == {"trailingEps", "trailingPE", "bookValue", "earningsGrowth", "sector",
            "sharesOutstanding", "totalRevenue"}

\* a usable value of each field: EPS 5, P/E 12.5, book value 10, growth 0.25,
\* 3 shares, revenue 40
GoodProfile ==
    [trailingEps |-> FNum(float_of(5, 1)), trailingPE |-> FNum(float_of(125, 10)),
     bookValue |-> FNum(float_of(10, 1)), earningsGrowth |-> FNum(float_of(25, 100)),
     sector |-> Str("Energy"), sharesOutstanding |-> FNum(float_of(3, 1)),
     totalRevenue |-> FNum(float_of(40, 1))]

\* every subset of the fields absent, the others usable
AbsentSubsets == {[k \in ValKeys |-> IF k \in S THEN FAbsent ELSE GoodProfile[k]] : S \in SUBSET ValKeys}

NumberValues ==
    {FAbsent, FNone, Str("Infinity"), FNum(FloatZero), FNum(float_of(0 - 2, 1)), FNum(float_of(5, 1)),
     FNum(float_of(125, 10)), FNum(float_of(1, 10))}

SectorValues ==
    {FAbsent, FNone, Str("Crypto"), FNum(float_of(5, 1))}
        \cup {Str(name) : name \in DOMAIN sector_pe_estimates}

\* two fields varied together over every kind of value, the others usable
VariedPair(first, second) ==
    {[GoodProfile EXCEPT ![first] = a, ![second] = b] : a \in NumberValues, b \in NumberValues}

\* the fields the three profile-only functions read
VariedProfiles ==
    VariedPair("trailingPE", "earningsGrowth") \cup VariedPair("trailingEps", "bookValue")
        \cup VariedPair("trailingEps", "trailingPE")
        \cup {[GoodProfile EXCEPT !["sector"] = x] : x \in SectorValues}

\* cash-flow statements: most recent period in the first column
CashFlowLine(name, first, second) == Rows({name}, <<first, second>>)

CashFlows ==
    {FetchFails, NoFrame}
    \cup {[raises |-> FALSE, columns |-> 2, rows |-> rows] : rows \in
            {CashFlowLine("Free Cash Flow", Cell(float_of(20, 1)), Cell(float_of(16, 1)))
                 @@ CashFlowLine("Operating Cash Flow", Cell(float_of(30, 1)), Cell(float_of(28, 1))),
             CashFlowLine("Free Cash Flow", FNaN, Cell(float_of(16, 1))),
             CashFlowLine("Free Cash Flow", Cell(FloatZero), Cell(float_of(16, 1))),
             CashFlowLine("Free Cash Flow", Cell(float_of(0 - 4, 1)), Cell(float_of(16, 1))),
             CashFlowLine("Operating Cash Flow", Cell(float_of(24, 1)), Cell(float_of(28, 1))),
             CashFlowLine("Operating Cash Flow", Cell(float_of(1, 1)), Cell(float_of(28, 1))),
             CashFlowLine("Operating Cash Flow", FNaN, Cell(float_of(28, 1))),
             CashFlowLine("Capital Expenditure", Cell(float_of(0 - 3, 1)), Cell(float_of(0 - 2, 1)))}}

\* free-cash-flow values: every significand at a few exponents
MaxFcfExponent == 2
FcfValues ==
    {Float(1, m, e) : m \in Pow2(MantissaBits - 1)..(Pow2(MantissaBits) - 1), e \in 0..MaxFcfExponent}

WithFcf(fcf) ==
    [raises |-> FALSE, columns |-> 2,
     rows |-> CashFlowLine("Free Cash Flow", Cell(fcf), Cell(float_of(16, 1)))]

ShareCounts == {FNum(float_of(1, 1)), FNum(float_of(3, 1)), FNum(float_of(10, 1))}

ValInputs ==
    {<<cf, inf>> : cf \in CashFlows, inf \in AbsentSubsets}
    \cup {<<cf, inf>> : cf \in CashFlows, inf \in VariedPair("sharesOutstanding", "totalRevenue")}
    \cup {<<WithFcf(float_of(20, 1)), inf>> : inf \in VariedProfiles}

\* the free-cash-flow sweep: every value against a few share counts
DcfInputs ==
    {<<WithFcf(fcf), [GoodProfile EXCEPT !["sharesOutstanding"] = shares]>> :
        fcf \in FcfValues, shares \in ShareCounts}

InitVal ==
    /\ indian_exchanges = IndianExchangesInit
    /\ indian_companies = IndianCompaniesInit
    /\ us_companies = UsCompaniesInit
    /\ session = << >>
    /\ query = << >>
    /\ probe = [i \in 1..(1 + Len(IndianExchangesInit)) |-> "none"]
    /\ result = NotCalled
    /\ hist_data = NoHistory /\ rec_applied = << >> /\ rec_result = NotCalled
    /\ financials = NoFrame /\ balance_sheet = NoFrame /\ comp_result = NotCalled
    /\ compounding_tab = NotCalled /\ comp_applied = << >>
    /\ limit = DefaultLimit /\ suggestions = NotCalled
    /\ \E input \in ValInputs : cash_flow = input[1] /\ info = input[2]
    /\ valuation = NoValuation
    /\ economy = NoEconomy /\ economic_analysis = NotCalled

ValFrame ==
    UNCHANGED <<search_vars, rec_vars, comp_vars, sugg_vars, cash_flow, econ_vars>>

\* one call of calculate_dcf_value(ticker, info)
CalculateDcfValue ==
    /\ valuation.dcf = NotCalled
    /\ valuation' = [valuation EXCEPT !.dcf = calculate_dcf_value(cash_flow, info)]
    /\ ValFrame

\* one call of calculate_pe_valuation(ticker, info)
CalculatePeValuation ==
    /\ valuation.pe = NotCalled
    /\ valuation' = [valuation EXCEPT !.pe = calculate_pe_valuation(info)]
    /\ ValFrame

\* one call of calculate_graham_number(ticker, info)
CalculateGrahamNumber ==
    /\ valuation.graham = NotCalled
    /\ valuation' = [valuation EXCEPT !.graham = calculate_graham_number(info)]
    /\ ValFrame

\* one call of calculate_peg_ratio(ticker, info)
CalculatePegRatio ==
    /\ valuation.peg = NotCalled
    /\ valuation' = [valuation EXCEPT !.peg = calculate_peg_ratio(info)]
    /\ ValFrame

NextVal ==
    \/ CalculateDcfValue
    \/ CalculatePeValuation
    \/ CalculateGrahamNumber
    \/ CalculatePegRatio

SpecVal == InitVal /\ [][NextVal]_vars

InitDcf ==
    /\ indian_exchanges = IndianExchangesInit
    /\ indian_companies = IndianCompaniesInit
    /\ us_companies = UsCompaniesInit
    /\ session = << >>
    /\ query = << >>
    /\ probe = [i \in 1..(1 + Len(IndianExchangesInit)) |-> "none"]
    /\ result = NotCalled
    /\ hist_data = NoHistory /\ rec_applied = << >> /\ rec_result = NotCalled
    /\ financials = NoFrame /\ balance_sheet = NoFrame /\ comp_result = NotCalled
    /\ compounding_tab = NotCalled /\ comp_applied = << >>
    /\ limit = DefaultLimit /\ suggestions = NotCalled
    /\ \E input \in DcfInputs : cash_flow = input[1] /\ info = input[2]
    /\ valuation = NoValuation
    /\ economy = NoEconomy /\ economic_analysis = NotCalled

NextDcf == CalculateDcfValue

SpecDcf == InitDcf /\ [][NextDcf]_vars

InitRec ==
    /\ indian_exchanges = IndianExchangesInit
    /\ indian_companies = IndianCompaniesInit
    /\ us_companies = UsCompaniesInit
    /\ session = << >>
    /\ query = << >>
    /\ probe = [i \in 1..(1 + Len(IndianExchangesInit)) |-> "none"]
    /\ result = NotCalled
    /\ \E input \in RecInputs : info = input[1] /\ hist_data = input[2]
    /\ rec_applied = << >>
    /\ rec_result = NotCalled
    /\ financials = NoFrame /\ balance_sheet = NoFrame /\ comp_result = NotCalled
    /\ compounding_tab = NotCalled /\ comp_applied = << >>
    /\ limit = DefaultLimit /\ suggestions = NotCalled
    /\ cash_flow = NoFrame /\ valuation = NoValuation
    /\ economy = NoEconomy /\ economic_analysis = NotCalled

\* one call of get_recommendation(ticker, info, hist_data)
GetRecommendation ==
    /\ rec_result = NotCalled
    /\ rec_result' = get_recommendation(info, hist_data)
    /\ rec_applied' = apply_rules(1, info, hist_data, << >>).applied
    /\ UNCHANGED <<info, hist_data>>
    /\ UNCHANGED <<search_vars, comp_vars, sugg_vars, val_vars, econ_vars>>

NextRec == GetRecommendation

SpecRec == InitRec /\ [][NextRec]_vars

InitComp ==
    /\ indian_exchanges = IndianExchangesInit
    /\ indian_companies = IndianCompaniesInit
    /\ us_companies = UsCompaniesInit
    /\ session = << >>
    /\ query = << >>
    /\ probe = [i \in 1..(1 + Len(IndianExchangesInit)) |-> "none"]
    /\ result = NotCalled
    /\ hist_data = NoHistory /\ rec_applied = << >> /\ rec_result = NotCalled
    /\ \E input \in CompInputs :
          financials = input[1] /\ balance_sheet = input[2] /\ info = input[3]
    /\ comp_result = NotCalled /\ compounding_tab = NotCalled /\ comp_applied = << >>
    /\ limit = DefaultLimit /\ suggestions = NotCalled
    /\ cash_flow = NoFrame /\ valuation = NoValuation
    /\ economy = NoEconomy /\ economic_analysis = NotCalled

\* one call of analyze_profit_compounding(ticker, info)
AnalyzeProfitCompounding ==
    /\ comp_result = NotCalled
    /\ comp_result' = analyze_profit_compounding(financials, balance_sheet, info)
    /\ comp_applied' = rules_applied(financials, balance_sheet, info)
    /\ UNCHANGED <<financials, balance_sheet, info, hist_data, rec_applied, rec_result, compounding_tab>>
    /\ UNCHANGED <<search_vars, sugg_vars, val_vars, econ_vars>>

NextComp == AnalyzeProfitCompounding

SpecComp == InitComp /\ [][NextComp]_vars

(***************************************************************************)
(* Inputs of the rule-order specification: one company scored by both      *)
(* get_recommendation and analyze_profit_compounding.                      *)
(***************************************************************************)
OrderProfiles ==
    {[trailingPE |-> pe, debtToEquity |-> de, dividendYield |-> dy, revenueGrowth |-> dy,
      profitMargins |-> Num(20)] :
        pe \in {Absent, Num(1200), Num(3000)},
        de \in {Absent, Num(20), Num(150)},
        dy \in {Num(8), Num(0 - 2)}}
    \cup {[trailingPE |-> Num(1200), debtToEquity |-> Num(20), dividendYield |-> Text,
           revenueGrowth |-> Num(8), profitMargins |-> Num(10)]}

OrderHistories ==
    {NoHistory}
    \cup {[rows |-> MaxBars, columns |-> "all", close |-> ClosePrices(MaxBars, shape)] :
            shape \in {<<20, -3, 1>>, <<-20, 3, -1>>, <<1, 1, 1>>}}

OrderStatements ==
    {<<NoFrame, NoFrame>>}
    \cup {<<Statement(MaxPeriods, Rows({"Total Revenue"}, Line(MaxPeriods, 40, a))
                                  @@ Rows({"Net Income"}, Line(MaxPeriods, 40, b))),
            Statement(MaxPeriods, Rows({"Stockholders Equity"}, Line(MaxPeriods, 200, 0))
                                  @@ Rows({"Retained Earnings"}, Line(MaxPeriods, 40, a)))>> :
            a \in {0 - 3, 3}, b \in {0 - 3, 6}}

OrderInputs == OrderProfiles \X OrderHistories \X OrderStatements

InitOrder ==
    /\ indian_exchanges = IndianExchangesInit
    /\ indian_companies = IndianCompaniesInit
    /\ us_companies = UsCompaniesInit
    /\ session = << >>
    /\ query = << >>
    /\ probe = [i \in 1..(1 + Len(IndianExchangesInit)) |-> "none"]
    /\ result = NotCalled
    /\ \E input \in OrderInputs :
          /\ info = input[1] /\ hist_data = input[2]
          /\ financials = input[3][1] /\ balance_sheet = input[3][2]
    /\ rec_applied = << >> /\ rec_result = NotCalled
    /\ comp_result = NotCalled /\ compounding_tab = NotCalled /\ comp_applied = << >>
    /\ limit = DefaultLimit /\ suggestions = NotCalled
    /\ cash_flow = NoFrame /\ valuation = NoValuation
    /\ economy = NoEconomy /\ economic_analysis = NotCalled

NextOrder == GetRecommendation \/ AnalyzeProfitCompounding

SpecOrder == InitOrder /\ [][NextOrder]_vars

(***************************************************************************)
(* Inputs of the line-item specification: statements of up to MaxColumns   *)
(* periods whose cells are chosen one by one, a missing value included.    *)
(***************************************************************************)
MaxColumns == 3

\* every row of n cells over the values `vals`, each cell possibly missing
RowsOver(n, vals) == [1..n -> {NaN} \cup {Cell(v) : v \in vals}]

NoProfile == [debtToEquity |-> Absent, profitMargins |-> Absent]

\* net income against equity 200 (ROE 0%, 5%, 10%, 20% per period), a
\* negative equity and periods either statement does not report
RoeInputs ==
    UNION {{<<Statement(n, Rows({"Net Income"}, ni)),
              Statement(n, Rows({"Stockholders Equity"}, eq)), NoProfile>> :
                ni \in RowsOver(n, {0, 10, 20, 40}), eq \in RowsOver(n, {0 - 100, 200})} :
           n \in 1..MaxColumns}

GrowthValues == {0 - 50, 0, 90, 100, 110, 121}

\* a line rising by 10 per period towards the most recent (first) column
RisingLine(n) == [i \in 1..n |-> Cell(100 + 10 * (n - i))]

\* one income-statement line under each of its names, and a first alias
\* together with a later one that reports a rising line
IncomeLines(n) ==
    {Rows({name}, row) :
        name \in {"Total Revenue"} \cup {net_income_keys[i] : i \in DOMAIN net_income_keys},
        row \in RowsOver(n, GrowthValues)}
    \cup {Rows({net_income_keys[1]}, row) @@ Rows({net_income_keys[k]}, RisingLine(n)) :
            row \in RowsOver(n, GrowthValues), k \in {2, 3}}

RetainedLines(n) ==
    {Rows({name}, row) :
        name \in {retained_earnings_keys[i] : i \in DOMAIN retained_earnings_keys},
        row \in RowsOver(n, GrowthValues)}
    \cup {Rows({retained_earnings_keys[1]}, row) @@ Rows({retained_earnings_keys[2]}, RisingLine(n)) :
            row \in RowsOver(n, GrowthValues)}

GrowthInputs ==
    UNION {{<<Statement(n, rows), NoFrame, NoProfile>> : rows \in IncomeLines(n)}
           \cup {<<Statement(n, Rows({"EBIT"}, RisingLine(n))), Statement(n, rows), NoProfile>> :
                    rows \in RetainedLines(n)} :
           n \in 1..MaxColumns}

LineInputs == RoeInputs \cup GrowthInputs

InitLines ==
    /\ indian_exchanges = IndianExchangesInit
    /\ indian_companies = IndianCompaniesInit
    /\ us_companies = UsCompaniesInit
    /\ session = << >>
    /\ query = << >>
    /\ probe = [i \in 1..(1 + Len(IndianExchangesInit)) |-> "none"]
    /\ result = NotCalled
    /\ hist_data = NoHistory /\ rec_applied = << >> /\ rec_result = NotCalled
    /\ \E input \in LineInputs :
          financials = input[1] /\ balance_sheet = input[2] /\ info = input[3]
    /\ comp_result = NotCalled /\ compounding_tab = NotCalled /\ comp_applied = << >>
    /\ limit = DefaultLimit /\ suggestions = NotCalled
    /\ cash_flow = NoFrame /\ valuation = NoValuation
    /\ economy = NoEconomy /\ economic_analysis = NotCalled

NextLines == AnalyzeProfitCompounding

SpecLines == InitLines /\ [][NextLines]_vars

(***************************************************************************)
(* Consumers of the compounding verdict: the recommendation text           *)
(* (company_search.py) and the Profit Compounding tab (app.py).            *)
(* is_compounding is True, False or None in the code: "true", "false",     *)
(* "unknown" here.  Only True is truthy.                                   *)
(***************************************************************************)
get_compounding_recommendation(analysis) ==
    IF analysis.is_compounding = "unknown"
    THEN "Unable to determine compounding quality due to insufficient data"
    ELSE IF analysis.is_compounding = "true"
    THEN "Strong compounding characteristics - company effectively reinvests profits for growth"
    ELSE IF analysis.compounding_score >= 3
    THEN "Moderate compounding potential - some positive indicators but room for improvement"
    ELSE "Weak compounding profile - limited evidence of effective profit reinvestment"

\* the status line at the top of the tab: `is True`, `is False`, else
compounding_status(analysis) ==
    IF analysis.is_compounding = "true" THEN "Strong Profit Compounding"
    ELSE IF analysis.is_compounding = "false"
    THEN IF analysis.compounding_score >= 3 THEN "Moderate Compounding" ELSE "Weak Compounding"
    ELSE "Insufficient Data"

\* the colour of the marker on the growth chart; the chart is drawn only
\* when both growth figures are known
marker_color(analysis) ==
    IF analysis.revenue_growth = Unknown \/ analysis.profit_growth = Unknown THEN "not drawn"
    ELSE IF analysis.is_compounding = "true" THEN "green"
    ELSE IF analysis.compounding_score >= 3 THEN "orange"
    ELSE "red"

\* the box the recommendation text is shown in: `is True`, `is False`, else
assessment_box(analysis) ==
    IF analysis.is_compounding = "true" THEN "success"
    ELSE IF analysis.is_compounding = "false"
    THEN IF analysis.compounding_score >= 3 THEN "warning" ELSE "error"
    ELSE "info"

\* the 'Overall Assessment' row of the downloadable summary
overall_assessment(analysis) ==
    IF analysis.is_compounding = "true" THEN "Strong"
    ELSE IF analysis.compounding_score >= 3 THEN "Moderate"
    ELSE "Weak"

\* everything the tab derives from (verdict, score)
compounding_view(analysis) ==
    [status |-> compounding_status(analysis),
     marker |-> marker_color(analysis),
     recommendation |-> get_compounding_recommendation(analysis),
     box |-> assessment_box(analysis),
     overall |-> overall_assessment(analysis)]

\* the Profit Compounding tab: the analysis, then everything shown for it
ShowCompoundingTab ==
    /\ comp_result = NotCalled
    /\ comp_result' = analyze_profit_compounding(financials, balance_sheet, info)
    /\ compounding_tab' = Returned(compounding_view(comp_result'.value))
    /\ comp_applied' = rules_applied(financials, balance_sheet, info)
    /\ UNCHANGED <<financials, balance_sheet, info, hist_data, rec_applied, rec_result>>
    /\ UNCHANGED <<search_vars, sugg_vars, val_vars, econ_vars>>

NextTab == ShowCompoundingTab

SpecTab == InitComp /\ [][NextTab]_vars

(***************************************************************************)
(* Properties of symbol resolution.                                        *)
(***************************************************************************)
Chars ==
    {LowerLetters[i] : i \in DOMAIN LowerLetters} \cup {UpperLetters[i] : i \in DOMAIN UpperLetters}
        \cup Whitespace \cup {"&", "'", "-", "."}
Searched == result # NotCalled
QueryLower == strip(lower(query))
ProbeSaysValid(i) == probe[i] = "has_symbol"
ExactIn(table, ql) == \E i \in DOMAIN table : table[i].name = ql
Matches(table, i, ql) == IsSubstring(ql, table[i].name) \/ IsSubstring(table[i].name, ql)
MatchingEntries(table, ql) == {i \in DOMAIN table : Matches(table, i, ql)}
Least(S) == CHOOSE i \in S : \A j \in S : i <= j

\* C7: for every query string and every behaviour of the validity probe
\* (valid, invalid, raising) search_company returns a symbol string and never
\* fails; a raising probe gives the same result as a probe that finds nothing.
C7_SearchTotal ==
    Searched =>
        /\ ~result.raised
        /\ result.value \in Seq(Chars)
        /\ \A i \in DOMAIN probe :
              probe[i] = "raise" => result = search_company(query, [probe EXCEPT ![i] = "none"])

C7_Witness ==
    /\ Searched
    /\ \A i \in DOMAIN probe : probe[i] = "raise"
    /\ query = <<"x", "y", "z">>
    /\ result = Returned(<<"X", "Y", "Z">>)

\* C8: when the probe reports the uppercased query valid, search_company
\* returns the uppercased query itself, whatever the tables hold for it;
\* "AAPL" marked valid returns "AAPL".
C8_ValidSymbolReturnedAsIs ==
    (Searched /\ ProbeSaysValid(1)) =>
        /\ result = Returned(upper(query))
        /\ query = <<"A", "A", "P", "L">> => result.value = <<"A", "A", "P", "L">>

C8_Witness ==
    /\ Searched /\ ProbeSaysValid(1)
    /\ query = <<"t", "c", "s">>
    /\ ExactIn(indian_companies, QueryLower)
    /\ result = Returned(<<"T", "C", "S">>)

\* C9: when the uppercased query is not valid and the trimmed lower-cased
\* query equals a domestic name, that entry's symbol is returned; otherwise,
\* if it equals a secondary name, that entry's symbol is returned; earlier
\* entries that merely contain (or are contained in) the query do not win.
\* "tcs" in any letter case returns "TCS.NS".
C9_ExactMatch ==
    (Searched /\ ~ProbeSaysValid(1)) =>
        LET ql == QueryLower
        IN  /\ \A i \in DOMAIN indian_companies :
                  indian_companies[i].name = ql => result = Returned(indian_companies[i].symbol)
            /\ ~ExactIn(indian_companies, ql) =>
                  \A j \in DOMAIN us_companies :
                      us_companies[j].name = ql => result = Returned(us_companies[j].symbol)
            /\ ql = <<"t", "c", "s">> => result.value = <<"T", "C", "S", ".", "N", "S">>

C9_Witness ==
    /\ Searched /\ ~ProbeSaysValid(1)
    /\ query = <<"h", "d", "f", "c">>
    /\ \E i \in DOMAIN indian_companies :
          /\ indian_companies[i].name = QueryLower
          /\ \E j \in 1..(i - 1) : Matches(indian_companies, j, QueryLower)
                                     /\ indian_companies[j].symbol # indian_companies[i].symbol
    /\ result = Returned(<<"H", "D", "F", "C", ".", "N", "S">>)

\* C10: with no valid probe and no exact match, the first domestic entry in
\* table order whose name contains the query or is contained in it gives the
\* result; the secondary table is scanned the same way only when no domestic
\* entry matches.  "tata consultancy" returns "TCS.NS".
C10_SubstringMatch ==
    (Searched /\ ~ProbeSaysValid(1)) =>
        LET ql == QueryLower
            domestic == MatchingEntries(indian_companies, ql)
            secondary == MatchingEntries(us_companies, ql)
        IN  (~ExactIn(indian_companies, ql) /\ ~ExactIn(us_companies, ql)) =>
                /\ domestic # {} => result = Returned(indian_companies[Least(domestic)].symbol)
                /\ (domestic = {} /\ secondary # {}) =>
                      result = Returned(us_companies[Least(secondary)].symbol)
                /\ ql = <<"t","a","t","a"," ","c","o","n","s","u","l","t","a","n","c","y">> =>
                      result.value = <<"T", "C", "S", ".", "N", "S">>

C10_Witness ==
    /\ Searched /\ ~ProbeSaysValid(1)
    /\ query = <<"t","a","t","a"," ","c","o","n","s","u","l","t","a","n","c","y">>
    /\ ~ExactIn(indian_companies, QueryLower) /\ ~ExactIn(us_companies, QueryLower)
    /\ Least(MatchingEntries(indian_companies, QueryLower)) = 2
    /\ result = Returned(<<"T", "C", "S", ".", "N", "S">>)

\* C11: when the raw probe is not valid and no table entry matches exactly
\* or by substring, the uppercased query is probed with ".NS" and then with
\* ".BO" and the first suffixed symbol that is valid is returned; when
\* neither is valid the uppercased raw query is returned unchanged.
C11_SuffixProbes ==
    (Searched /\ ~ProbeSaysValid(1)) =>
        LET ql == QueryLower
        IN  (/\ ~ExactIn(indian_companies, ql) /\ ~ExactIn(us_companies, ql)
             /\ MatchingEntries(indian_companies, ql) = {}
             /\ MatchingEntries(us_companies, ql) = {}) =>
                result = Returned(
                    IF ProbeSaysValid(2) THEN upper(query) \o <<".", "N", "S">>
                    ELSE IF ProbeSaysValid(3) THEN upper(query) \o <<".", "B", "O">>
                    ELSE upper(query))

C11_Witness ==
    /\ Searched
    /\ query = <<"x", "y", "z">>
    /\ MatchingEntries(indian_companies, QueryLower) = {}
    /\ MatchingEntries(us_companies, QueryLower) = {}
    /\ probe[1] = "none" /\ probe[2] = "raise" /\ probe[3] = "has_symbol"
    /\ result = Returned(<<"X", "Y", "Z", ".", "B", "O">>)

\* the fallback of the same case: no suffixed symbol is valid
C11_WitnessFallback ==
    /\ Searched
    /\ query = <<"z", "z", " ", "t", "o", "p">>
    /\ \A i \in DOMAIN probe : ~ProbeSaysValid(i)
    /\ result = Returned(<<"Z", "Z", " ", "T", "O", "P">>)

\* C12: get_suggestions(query, limit) returns exactly the entries whose name
\* contains the trimmed, lower-cased query: all domestic matches in table
\* order, then all secondary matches in table order, cut to the first `limit`
\* entries; the result never has more than `limit` entries (limit is a count,
\* 0 or more; a negative limit gives the empty list).
Suggested == suggestions # NotCalled
Containing(table, ql) == {i \in DOMAIN table : IsSubstring(ql, table[i].name)}
Rank(S, i) == Cardinality({j \in S : j <= i})
SuggestionOf(table, i, label) ==
    [name |-> title(table[i].name), symbol |-> table[i].symbol, exchange |-> label]

C12_SuggestionsOrderedAndCut ==
    Suggested =>
        LET ql == QueryLower
            domestic == Containing(indian_companies, ql)
            secondary == Containing(us_companies, ql)
            total == Cardinality(domestic) + Cardinality(secondary)
            r == suggestions.value
        IN  /\ ~suggestions.raised
            /\ limit >= 0 =>
                  /\ Len(r) <= limit
                  /\ Len(r) = (IF total < limit THEN total ELSE limit)
                  /\ \A i \in domestic :
                        Rank(domestic, i) <= Len(r) =>
                            r[Rank(domestic, i)] = SuggestionOf(indian_companies, i, IndiaLabel)
                  /\ \A j \in secondary :
                        Cardinality(domestic) + Rank(secondary, j) <= Len(r) =>
                            r[Cardinality(domestic) + Rank(secondary, j)]
                                = SuggestionOf(us_companies, j, UsLabel)
            /\ limit < 0 => r = << >>

\* "bank" with limit 6: the five domestic banks, then Bank Of America
C12_Witness ==
    /\ Suggested
    /\ query = <<"b", "a", "n", "k">> /\ limit = 6
    /\ Len(suggestions.value) = 6
    /\ suggestions.value[1].name = <<"H", "d", "f", "c", " ", "B", "a", "n", "k">>
    /\ suggestions.value[5].exchange = IndiaLabel
    /\ suggestions.value[6] =
          [name |-> <<"B", "a", "n", "k", " ", "O", "f", " ", "A", "m", "e", "r", "i", "c", "a">>,
           symbol |-> <<"B", "A", "C">>, exchange |-> UsLabel]

\* "me" with limit 3: five entries match, the list is cut inside the secondary group
C12_WitnessCut ==
    /\ Suggested
    /\ query = <<"m", "e">> /\ limit = 3
    /\ Cardinality(Containing(indian_companies, QueryLower)) = 2
    /\ Cardinality(Containing(us_companies, QueryLower)) = 3
    /\ Len(suggestions.value) = 3
    /\ suggestions.value[3].symbol = <<"M", "E", "T", "A">>

(***************************************************************************)
(* Properties of the valuation functions.                                  *)
(***************************************************************************)
PegCalled == valuation.peg # NotCalled
IsNumber(x) == x.kind = "num"
Positive(x) == IsNumber(x) /\ ~not_positive(x.v)
IsUnknown(outcome) == outcome = Returned(FNone)

\* C13: calculate_peg_ratio returns unknown whenever earnings growth is
\* absent, zero or negative, whatever the trailing P/E is; when a P/E number
\* is present and growth is positive it returns P/E / (growth * 100).
C13_PegRatio ==
    PegCalled =>
        LET pe == info["trailingPE"]
            growth == info["earningsGrowth"]
        IN  /\ (growth.kind = "absent" \/ (IsNumber(growth) /\ not_positive(growth.v))) =>
                  IsUnknown(valuation.peg)
            /\ (IsNumber(pe) /\ Positive(growth)) =>
                  valuation.peg = Returned(FNum(fdiv(pe.v, fmul(growth.v, Hundred))))

DcfCalled == valuation.dcf # NotCalled
\* the statement was fetched and its 'Free Cash Flow' line starts with a
\* positive number, and the number of shares is positive
FcfAndSharesPositive ==
    /\ ~cash_flow.raises
    /\ "Free Cash Flow" \in DOMAIN cash_flow.rows
    /\ ~cash_flow.rows["Free Cash Flow"][1].nan
    /\ ~not_positive(cash_flow.rows["Free Cash Flow"][1].v)
    /\ Positive(info["sharesOutstanding"])
RecentFcf == cash_flow.rows["Free Cash Flow"][1].v
\* the same call with another most-recent free cash flow
DcfWith(fcf) ==
    calculate_dcf_value([cash_flow EXCEPT !.rows["Free Cash Flow"][1] = Cell(fcf)], info).value
Doubled(x) == Float(x.s, x.m, x.e + 1)

\* C14 (as stated): for a fixed positive number of shares, the DCF value per
\* share is strictly increasing in the most recent free cash flow: for any
\* two positive values a < b the value for a is strictly less than for b.
C14_DcfStrictlyIncreasing ==
    (DcfCalled /\ FcfAndSharesPositive) =>
        \A b \in FcfValues :
            fless(RecentFcf, b) =>
                /\ IsNumber(valuation.dcf.value) /\ IsNumber(DcfWith(b))
                /\ fless(valuation.dcf.value.v, DcfWith(b).v)

\* C14 (amended): the DCF value per share never decreases when the free cash
\* flow increases, and it strictly increases when the free cash flow at
\* least doubles; two values closer than the rounding of the floating-point
\* computation can give the same value.
C14_DcfNonDecreasing ==
    (DcfCalled /\ FcfAndSharesPositive) =>
        \A b \in FcfValues :
            fless(RecentFcf, b) =>
                /\ IsNumber(valuation.dcf.value) /\ IsNumber(DcfWith(b))
                /\ ~fless(DcfWith(b).v, valuation.dcf.value.v)
                /\ ~fless(b, Doubled(RecentFcf)) => fless(valuation.dcf.value.v, DcfWith(b).v)

\* two different free cash flows whose values coincide after rounding
C14_Witness ==
    /\ DcfCalled /\ FcfAndSharesPositive
    /\ \E b \in FcfValues : fless(RecentFcf, b) /\ DcfWith(b) = valuation.dcf.value
    /\ \E b \in FcfValues : fless(RecentFcf, b) /\ fless(valuation.dcf.value.v, DcfWith(b).v)

NumberOrUnknown(outcome) ==
    outcome # NotCalled => (~outcome.raised /\ outcome.value.kind \in {"num", "none"})

\* C15: each of calculate_dcf_value, calculate_pe_valuation,
\* calculate_graham_number and calculate_peg_ratio returns a number or
\* unknown and never raises, for every profile (any subset of fields absent,
\* None, text or numbers) and, for DCF, every cash-flow statement: fetched,
\* empty or failing to load.
C15_ValuationsNeverRaise ==
    /\ NumberOrUnknown(valuation.dcf)
    /\ NumberOrUnknown(valuation.pe)
    /\ NumberOrUnknown(valuation.graham)
    /\ NumberOrUnknown(valuation.peg)

\* an empty statement and a profile without P/E: only the Graham number is known
C15_Witness ==
    /\ cash_flow = NoFrame
    /\ info = [GoodProfile EXCEPT !["trailingPE"] = FAbsent, !["sector"] = FAbsent]
    /\ valuation.dcf = Returned(FNone)
    /\ valuation.pe = Returned(FNone)
    /\ valuation.peg = Returned(FNone)
    /\ valuation.graham # NotCalled /\ IsNumber(valuation.graham.value)

\* a text where a number is expected is absorbed as well
C15_WitnessText ==
    /\ info["trailingEps"].kind = "text"
    /\ valuation.pe = Returned(FNone)
    /\ pe_valuation(info).raised

(***************************************************************************)
(* Properties of get_recommendation.                                       *)
(***************************************************************************)
RecCalled == rec_result # NotCalled
RecFailed == RecCalled /\ "Error" \in DOMAIN rec_result.value.factors
HasCloses == hist_data.columns = "all"
Current == hist_data.close[Len(hist_data.close)]
Contribution(i) == rec_applied[i].delta

\* C3: trailing P/E 12, debt-to-equity 0.2, dividend yield 0.04, revenue
\* growth 0.08, at least 50 bars with current > MA20 > MA50 and RSI 25: the
\* six contributions are 2, 2, 1, 1, 1, 1, the score is their sum 8 and the
\* verdict is STRONG BUY.
C3_ScenarioScoresEight ==
    ( /\ RecCalled
      /\ info = [trailingPE |-> Num(1200), debtToEquity |-> Num(20),
                 dividendYield |-> Num(4), revenueGrowth |-> Num(8)]
      /\ HasCloses /\ hist_data.rows >= 50
      /\ Current * 20 > rolling_sum(hist_data.close, 20)
      /\ rolling_sum(hist_data.close, 20) * 50 > rolling_sum(hist_data.close, 50) * 20
      /\ gain_sum(hist_data.close) > 0
      /\ 100 * gain_sum(hist_data.close)
            = 25 * (gain_sum(hist_data.close) + loss_sum(hist_data.close)) ) =>
        /\ ~rec_result.raised
        /\ [i \in 1..6 |-> Contribution(i)] = <<2, 2, 1, 1, 1, 1>>
        /\ rec_result.value.score = 8
        /\ rec_result.value.action = "STRONG BUY"

C3_Witness ==
    /\ RecCalled
    /\ info = [trailingPE |-> Num(1200), debtToEquity |-> Num(20),
               dividendYield |-> Num(4), revenueGrowth |-> Num(8)]
    /\ HasCloses /\ hist_data.rows >= 50
    /\ Current * 20 > rolling_sum(hist_data.close, 20)
    /\ rolling_sum(hist_data.close, 20) * 50 > rolling_sum(hist_data.close, 50) * 20
    /\ gain_sum(hist_data.close) = 7 /\ loss_sum(hist_data.close) = 21
    /\ rec_result.value.score = 8

\* C4: the verdict is a function of the score alone: >= 4 STRONG BUY, 2..3
\* BUY, 0..1 HOLD, -2..-1 WEAK SELL, <= -3 SELL, and every verdict computed by
\* the rules carries the fixed justification of its bucket.
C4_VerdictOfScore ==
    RecCalled =>
        LET s == rec_result.value.score
            a == rec_result.value.action
            r == rec_result.value.reason
        IN  /\ s >= 4 => a = "STRONG BUY"
            /\ s \in 2..3 => a = "BUY"
            /\ s \in 0..1 => a = "HOLD"
            /\ s \in (-2)..(-1) => a = "WEAK SELL"
            /\ s <= -3 => a = "SELL"
            /\ ~RecFailed =>
                  /\ a = "STRONG BUY" => r = "Multiple positive indicators suggest strong upside potential"
                  /\ a = "BUY" => r = "Overall positive outlook with good risk-reward ratio"
                  /\ a = "HOLD" => r = "Mixed signals suggest maintaining current position"
                  /\ a = "WEAK SELL" => r = "Some concerning factors but not necessarily time to exit"
                  /\ a = "SELL" => r = "Multiple negative indicators suggest significant downside risk"

C4_Witness ==
    /\ RecCalled /\ ~RecFailed
    /\ rec_result.value.score = -5
    /\ rec_result.value.action = "SELL"

\* every bucket of C4 is reached
C4_BucketsReached(a) == RecCalled /\ ~RecFailed /\ rec_result.value.action = a

\* C5: with fewer than 50 bars (none included) the momentum rule reports
\* insufficient data and contributes 0, whatever the prices are.
C5_MomentumNeedsFiftyBars ==
    (RecCalled /\ hist_data.rows < 50) =>
        /\ Len(rec_applied) >= 2 =>
              /\ rec_applied[2].name = "Price Momentum"
              /\ rec_applied[2].delta = 0
              /\ rec_applied[2].factor = "Insufficient data for momentum analysis"
        /\ ~RecFailed =>
              /\ rec_result.value.factors["Price Momentum"] = "Insufficient data for momentum analysis"
              /\ rec_result.value.score =
                    Contribution(1) + Contribution(3) + Contribution(4) + Contribution(5) + Contribution(6)

C5_Witness ==
    /\ RecCalled /\ ~RecFailed
    /\ HasCloses /\ hist_data.rows = 49
    /\ Current * 20 > rolling_sum(hist_data.close, 20)
    /\ rec_result.value.factors["Price Momentum"] = "Insufficient data for momentum analysis"

\* the RSI rule ran on closes whose 14-period mean loss is zero
ZeroLoss ==
    /\ RecCalled /\ HasCloses /\ hist_data.rows >= 14
    /\ Len(rec_applied) >= 3
    /\ loss_sum(hist_data.close) = 0

\* C16: whenever the 14-period mean loss is zero the RSI rule applies one
\* policy: RSI is 100 and the rule scores overbought (-1), for a strictly
\* increasing series and equally for a flat one whose mean gain is zero too.
C16_ZeroLossIsOverbought ==
    ZeroLoss =>
        /\ current_rsi(hist_data.close) = [nan |-> FALSE, n |-> 100, d |-> 1]
        /\ rec_applied[3].name = "Technical (RSI)"
        /\ rec_applied[3].delta = 0 - 1
        /\ rec_applied[3].factor = "Overbought"

\* C19: the P/E rule contributes +2 (undervalued) when the trailing P/E is
\* below 15, +1 (fairly valued) when 15 <= P/E <= 25, -1 (overvalued) when
\* P/E > 25, and 0 with a 'not available' note when the P/E is absent.
PeIsNumber == info.trailingPE.kind = "num"
PeIsAbsent == info.trailingPE.kind \in {"absent", "none"}
PE == info.trailingPE.v
PeRuleDone == RecCalled /\ Len(rec_applied) >= 1

C19_PeRule ==
    (PeRuleDone /\ (PeIsNumber \/ PeIsAbsent)) =>
        /\ rec_applied[1].name = "Valuation (P/E)"
        /\ (PeIsNumber /\ PE < 1500) =>
               rec_applied[1].delta = 2 /\ rec_applied[1].factor = "Undervalued (P/E < 15)"
        /\ (PeIsNumber /\ PE >= 1500 /\ PE <= 2500) =>
               rec_applied[1].delta = 1 /\ rec_applied[1].factor = "Fairly valued (P/E 15-25)"
        /\ (PeIsNumber /\ PE > 2500) =>
               rec_applied[1].delta = 0 - 1 /\ rec_applied[1].factor = "Overvalued (P/E > 25)"
        /\ PeIsAbsent =>
               rec_applied[1].delta = 0 /\ rec_applied[1].factor = "P/E data not available"

\* C6: an error raised anywhere in the scoring (a non-numeric profile value
\* in any rule, a missing Close column) is not propagated: the result is
\* HOLD with score 0 and the single diagnostic factor, and the contributions
\* of the rules completed before the error are dropped.
ErrorInScoring ==
    \/ \E k \in InfoKeys : info[k].kind = "text"
    \/ (hist_data.columns = "no_close" /\ hist_data.rows > 0)

C6_ErrorDegradesToHold ==
    (RecCalled /\ ErrorInScoring) =>
        /\ ~rec_result.raised
        /\ rec_result.value.action = "HOLD"
        /\ rec_result.value.score = 0
        /\ DOMAIN rec_result.value.factors = {"Error"}
        /\ rec_result.value.factors["Error"] = "Insufficient data for analysis"

C6_Witness ==
    /\ RecCalled /\ ErrorInScoring
    /\ info.revenueGrowth.kind = "text"
    /\ Len(rec_applied) = 5
    /\ score_of(rec_applied) = 7
    /\ rec_result.value.score = 0
    /\ rec_result.value.action = "HOLD"

(***************************************************************************)
(* Properties of analyze_profit_compounding.                               *)
(***************************************************************************)
CompCalled == comp_result # NotCalled
Analysis == comp_result.value
FetchRaised == financials.raises \/ balance_sheet.raises
StatementsAvailable == ~FetchRaised /\ ~frame_empty(financials)
IsFallback ==
    /\ Analysis.compounding_score = 0
    /\ Analysis.revenue_growth = Unknown /\ Analysis.profit_growth = Unknown
    /\ Analysis.roe_trend = Unknown /\ Analysis.retained_earnings_growth = Unknown
    /\ Analysis.debt_management = Unknown /\ Analysis.efficiency_metrics = Unknown
    /\ Analysis.compounding_factors = << >>
    /\ Analysis.warnings = <<"Insufficient financial data for compounding analysis">>

C1_WitnessBelow ==
    /\ CompCalled /\ StatementsAvailable
    /\ Analysis.compounding_score = 4
    /\ Analysis.is_compounding = "false"

TabShown == compounding_tab # NotCalled
Shown == compounding_tab.value
UnableToDetermine ==
    /\ Shown.status = "Insufficient Data"
    /\ Shown.recommendation = "Unable to determine compounding quality due to insufficient data"
    /\ Shown.box = "info"
    /\ Shown.marker \notin {"green", "orange", "red"}
    /\ Shown.overall \notin {"Strong", "Moderate", "Weak"}

\* C17: every consumer of the compounding verdict keeps unknown distinct
\* from false: the recommendation text and every classification the tab
\* derives from (verdict, score) give an unknown verdict the 'unable to
\* determine' outcome, never the outcome of a false verdict with a score
\* below 3 ('Weak').
C17_UnknownKeptDistinct ==
    (TabShown /\ Analysis.is_compounding = "unknown") =>
        /\ UnableToDetermine
        /\ Shown.overall # "Weak"

(***************************************************************************)
(* Properties of a session.                                                *)
(***************************************************************************)
TablesAsConstructed ==
    /\ indian_exchanges = IndianExchangesInit
    /\ indian_companies = IndianCompaniesInit
    /\ us_companies = UsCompaniesInit

\* what the call logged at position i gives on the searcher as it is now
AnswerNow(i) ==
    IF session[i].call = "search_company"
    THEN search_company(session[i].query, session[i].probe)
    ELSE get_suggestions(session[i].query, session[i].limit)

SameCall(i, j) ==
    /\ session[i].call = session[j].call
    /\ session[i].query = session[j].query
    /\ session[i].probe = session[j].probe
    /\ session[i].limit = session[j].limit

\* C18: search_company and get_suggestions never modify the two lookup
\* tables or the suffix list: after any sequence of calls the tables equal
\* their initial contents, and the result of a call does not depend on the
\* calls made before it: the same query with the same gateway answers gives
\* the same result wherever it stands in the sequence, the result a searcher
\* with the initial tables gives.
C18_TablesImmutable ==
    /\ TablesAsConstructed
    /\ \A i \in DOMAIN session : session[i].outcome = AnswerNow(i)
    /\ \A i, j \in DOMAIN session : SameCall(i, j) => session[i].outcome = session[j].outcome

\* a new name resolved through a suffix probe, then the same name again
\* with every probe failing: the fallback, not the earlier symbol
C18_Witness ==
    /\ Len(session) = 2
    /\ TablesAsConstructed
    /\ session[1].call = "search_company" /\ session[1].query = <<"x", "y">>
    /\ session[1].outcome = Returned(<<"X", "Y", ".", "N", "S">>)
    /\ session[2].call = "search_company" /\ session[2].query = <<"x", "y">>
    /\ session[2].probe = NoProbe
    /\ session[2].outcome = Returned(<<"X", "Y">>)

\* suggestions asked for, a search made, the same suggestions again
C18_WitnessSuggest ==
    /\ Len(session) = 2
    /\ session[1].call = "get_suggestions" /\ session[1].query = <<"b", "a", "n", "k">>
    /\ session[2].call = "search_company" /\ session[2].query = <<"b", "a", "n", "k">>
    /\ session[2].outcome.value = session[1].outcome.value[1].symbol

(***************************************************************************)
(* Properties of the two debt rules.                                       *)
(***************************************************************************)
DebtIsZero == info.debtToEquity = Num(0)
DebtIsAbsent == info.debtToEquity.kind \in {"absent", "none"}
LeverageRuleDone == RecCalled /\ Len(rec_applied) >= 4
DebtRuleDone == CompCalled /\ StatementsAvailable
Conservative == \E i \in DOMAIN Analysis.compounding_factors :
                    Analysis.compounding_factors[i] = "Conservative debt management"

\* C20: a debt-to-equity value that is present and equal to 0 is distinct
\* from an absent one: the leverage rule of the recommendation and the debt
\* rule of the compounding analysis score it as a value below 0.3 (+1, low
\* debt), and only an absent value gives no contribution with the 'not
\* available' outcome.
C20_ZeroDebtIsLowDebt ==
    /\ (LeverageRuleDone /\ DebtIsZero) =>
           /\ rec_applied[4].delta = 1
           /\ rec_applied[4].factor = "Strong balance sheet (low debt)"
    /\ LeverageRuleDone =>
           (rec_applied[4].factor = "Debt information not available" <=> DebtIsAbsent)
    /\ (DebtRuleDone /\ DebtIsZero) =>
           /\ Analysis.debt_management # Unknown
           /\ Conservative
    /\ DebtRuleDone => (Analysis.debt_management = Unknown <=> DebtIsAbsent)

(***************************************************************************)
(* Properties of the rules of analyze_profit_compounding.                  *)
(***************************************************************************)
RulesRan == CompCalled /\ Len(comp_applied) = 6
Periods == 1..financials.columns

\* the cells of the first alias of `keys` that the statement has
LineOf(df, keys) ==
    LET present == {i \in DOMAIN keys : keys[i] \in DOMAIN df.rows}
    IN  IF present = {} THEN [p \in Periods |-> NaN]
        ELSE df.rows[keys[CHOOSE i \in present : \A j \in present : i <= j]]

HasLine(df, keys) == \E i \in DOMAIN keys : keys[i] \in DOMAIN df.rows
Reported(line) == {p \in DOMAIN line : ~line[p].nan}

NetIncomeLine == LineOf(financials, net_income_keys)
EquityLine == LineOf(balance_sheet, stockholder_equity_keys)
CommonDates == Reported(NetIncomeLine) \cap Reported(EquityLine)
PositiveEquity == {p \in CommonDates : EquityLine[p].v > 0}

\* sum over the periods of S of net income * 100 / equity
RECURSIVE RoeTotal(_)
RoeTotal(S) ==
    IF S = {} THEN Rat(0, 1)
    ELSE LET p == CHOOSE x \in S : TRUE
         IN  RatAdd(Rat(NetIncomeLine[p].v * 100, EquityLine[p].v), RoeTotal(S \ {p}))

RoeAverage ==
    LET total == RoeTotal(PositiveEquity)
    IN  Rat(total.n, total.d * Cardinality(PositiveEquity))

RoeComputed ==
    /\ HasLine(financials, net_income_keys) /\ HasLine(balance_sheet, stockholder_equity_keys)
    /\ Cardinality(CommonDates) >= 2 /\ PositiveEquity # {}

Roe == comp_applied[3]
AtLeast(x, p) == ~less(x, p, 1)
AtMost(x, p) == ~greater(x, p, 1)

\* C21 (as stated): the return-on-equity rule averages net income / equity
\* over the dates common to both series (at least 2 common dates, only
\* periods with equity > 0); an average > 15% adds 2, > 10% adds 1, < 5% adds
\* a warning, and an average between 5% and 15% adds neither score nor
\* warning.
C21_RoeRule ==
    RulesRan =>
        /\ Analysis.roe_trend = Roe.metric
        /\ Roe.metric # Unknown <=> RoeComputed
        /\ RoeComputed =>
              /\ Roe.metric = RoeAverage
              /\ greater(RoeAverage, 15, 1) => Roe.delta = 2
              /\ (greater(RoeAverage, 10, 1) /\ AtMost(RoeAverage, 15)) => Roe.delta = 1
              /\ less(RoeAverage, 5, 1) <=> Roe.warnings = <<"Low return on equity">>
              /\ (AtLeast(RoeAverage, 5) /\ AtMost(RoeAverage, 15)) =>
                    Roe.delta = 0 /\ Roe.warnings = << >>
        /\ ~RoeComputed => Roe = NoEffect

\* C21 (amended): as above, but it is an average from 5% to 10% that adds
\* neither score nor warning.
C21_RoeRuleTenPercent ==
    RulesRan =>
        /\ Analysis.roe_trend = Roe.metric
        /\ Roe.metric # Unknown <=> RoeComputed
        /\ RoeComputed =>
              /\ Roe.metric = RoeAverage
              /\ greater(RoeAverage, 15, 1) => Roe.delta = 2
              /\ (greater(RoeAverage, 10, 1) /\ AtMost(RoeAverage, 15)) => Roe.delta = 1
              /\ less(RoeAverage, 5, 1) <=> Roe.warnings = <<"Low return on equity">>
              /\ less(RoeAverage, 5, 1) => Roe.delta = 0
              /\ (AtLeast(RoeAverage, 5) /\ AtMost(RoeAverage, 10)) =>
                    Roe.delta = 0 /\ Roe.warnings = << >>
        /\ ~RoeComputed => Roe = NoEffect

\* three periods, one without equity > 0: ROE 5% and 20%, average 12.5%, +1
C21_Witness ==
    /\ RulesRan /\ RoeComputed
    /\ Cardinality(CommonDates) = 3 /\ Cardinality(PositiveEquity) = 2
    /\ RoeAverage = Rat(25, 2)
    /\ Roe.delta = 1 /\ Roe.warnings = << >>

C21_WitnessBetween ==
    /\ RulesRan /\ RoeComputed
    /\ RoeAverage = Rat(15, 2)
    /\ Roe.delta = 0 /\ Roe.warnings = << >>

\* the reported points of a line rise from every period to the next later
\* one (the first column is the most recent period) and are all positive
RisesOverTime(line) ==
    /\ \A p \in Reported(line) : line[p].v > 0
    /\ \A p, q \in Reported(line) : p < q => line[p].v > line[q].v

EnoughPoints(line) == Cardinality(Reported(line)) >= 3
RevenueLine == LineOf(financials, <<"Total Revenue">>)
RetainedLine == LineOf(balance_sheet, retained_earnings_keys)
PositiveMetric(x) == greater(x, 0, 1)

\* C22: the statement series are read under one ordering convention: the
\* first element of a line-item series, which calculate_dcf_value takes as
\* the most recent period, is also the latest period for the growth
\* computations, so a line item that rises from every period to the next
\* later one gives a positive revenue_growth / profit_growth /
\* retained_earnings_growth.
C22_RisingLineGrowsPositive ==
    RulesRan =>
        /\ (EnoughPoints(RevenueLine) /\ RisesOverTime(RevenueLine)) =>
               PositiveMetric(Analysis.revenue_growth)
        /\ (EnoughPoints(NetIncomeLine) /\ RisesOverTime(NetIncomeLine)) =>
               PositiveMetric(Analysis.profit_growth)
        /\ (~frame_empty(balance_sheet) /\ EnoughPoints(RetainedLine) /\ RisesOverTime(RetainedLine)) =>
               PositiveMetric(Analysis.retained_earnings_growth)

(***************************************************************************)
(* Properties of calculate_pe_valuation and calculate_dcf_value.           *)
(***************************************************************************)
PeCalled == valuation.pe # NotCalled
IsAbsent(x) == x.kind \in {"absent", "none"}
ListedSector == info.sector.kind = "text" /\ info.sector.text \in DOMAIN sector_pe_estimates
ClaimedBenchmark == IF ListedSector THEN sector_pe_estimates[info.sector.text] ELSE 20
EpsUsable == IsNumber(info.trailingEps) /\ ~not_positive(info.trailingEps.v)

\* C23: calculate_pe_valuation returns trailing EPS x the benchmark P/E of
\* the profile's sector, the benchmark being 20 for every profile whose
\* sector is not one of the 11 listed ones (a profile with no sector
\* included); it returns unknown exactly when EPS is absent or <= 0 or the
\* trailing P/E is absent; the value of a present trailing P/E does not
\* change the result.
C23_PeValuation ==
    (PeCalled /\ info.trailingEps.kind # "text") =>
        /\ IsUnknown(valuation.pe) <=> (~EpsUsable \/ IsAbsent(info.trailingPE))
        /\ (EpsUsable /\ ~IsAbsent(info.trailingPE)) =>
               valuation.pe =
                   Returned(FNum(fmul(info.trailingEps.v, float_of(ClaimedBenchmark, 1))))

HasFcfLine == "Free Cash Flow" \in DOMAIN cash_flow.rows
HasOcfLine == "Operating Cash Flow" \in DOMAIN cash_flow.rows
Revenue == info.totalRevenue
Shares == info.sharesOutstanding
\* 5% of total revenue, 0 when the revenue is absent
Capex == IF IsNumber(Revenue) THEN fmul(Revenue.v, CapexShare) ELSE FloatZero
\* the free cash flow the claim describes (of a statement with one of the lines)
ClaimedFcf ==
    IF HasFcfLine THEN cash_flow.rows["Free Cash Flow"][1]
    ELSE LET ocf == cash_flow.rows["Operating Cash Flow"][1]
         IN  IF ocf.nan THEN FNaN ELSE Cell(fsub(ocf.v, Capex))
DcfUnknownCase ==
    \/ frame_empty(cash_flow)
    \/ ~HasFcfLine /\ ~HasOcfLine
    \/ ClaimedFcf.nan
    \/ not_positive(ClaimedFcf.v)
    \/ IsAbsent(Shares)
    \/ IsNumber(Shares) /\ is_zero(Shares.v)

C24_WitnessMissing ==
    /\ DcfCalled /\ HasFcfLine /\ ClaimedFcf.nan /\ Positive(Shares)
    /\ IsUnknown(valuation.dcf)

(***************************************************************************)
(* Properties of the order of the scoring rules.                           *)
(***************************************************************************)
Orders == Permutations(1..6)
\* the six recommendation rules and the six compounding rules, applied in
\* the order `order`
RecRulesIn(order) == [i \in 1..6 |-> rec_applied[order[i]]]
CompRulesIn(order) == [i \in 1..6 |-> comp_applied[order[i]]]
NoRuleRaises == Len(rec_applied) = 6
Listed(effects, field) ==
    LET all == effects[1][field] \o effects[2][field] \o effects[3][field]
                   \o effects[4][field] \o effects[5][field] \o effects[6][field]
    IN  [x \in {all[i] : i \in DOMAIN all} |-> Cardinality({i \in DOMAIN all : all[i] = x})]

Known(x) == x # Unknown

\* C26: in every result of analyze_profit_compounding, revenue_growth,
\* profit_growth and retained_earnings_growth are unknown unless their
\* line-item series has at least 3 non-missing points, and roe_trend is
\* unknown unless equity and net income share at least 2 period dates; a
\* rule whose metric is unknown contributes neither score nor warning.
C26_MetricsNeedSamples ==
    CompCalled =>
        /\ Known(Analysis.revenue_growth) => EnoughPoints(RevenueLine)
        /\ Known(Analysis.profit_growth) => EnoughPoints(NetIncomeLine)
        /\ Known(Analysis.retained_earnings_growth) => EnoughPoints(RetainedLine)
        /\ Known(Analysis.roe_trend) => Cardinality(CommonDates) >= 2
        /\ \A i \in DOMAIN comp_applied :
               ~Known(comp_applied[i].metric) =>
                   /\ comp_applied[i].delta = 0
                   /\ comp_applied[i].warnings = << >>
                   /\ comp_applied[i].factors = << >>

\* three periods of which the revenue line reports two: no trend, no effect
C26_Witness ==
    /\ RulesRan
    /\ financials.columns = 3 /\ Cardinality(Reported(RevenueLine)) = 2
    /\ RisesOverTime(RevenueLine)
    /\ ~Known(Analysis.revenue_growth)
    /\ comp_applied[1] = NoEffect
    /\ Analysis.compounding_score = 0 /\ Analysis.warnings = << >>

\* a single date shared by net income and equity: no return on equity
C26_WitnessRoe ==
    /\ RulesRan
    /\ Cardinality(Reported(NetIncomeLine)) = 3 /\ Cardinality(CommonDates) = 1
    /\ PositiveEquity # {}
    /\ ~Known(Analysis.roe_trend) /\ Known(Analysis.profit_growth)

(***************************************************************************)
(* Properties of the momentum rule.                                        *)
(***************************************************************************)
\* n times the mean of the last n closes
RECURSIVE LastCloses(_)
LastCloses(n) ==
    IF n = 0 THEN 0 ELSE hist_data.close[Len(hist_data.close) - n + 1] + LastCloses(n - 1)

AboveMA20 == Current * 20 > LastCloses(20)
BelowMA50 == Current * 50 < LastCloses(50)
MA20AboveMA50 == LastCloses(20) * 50 > LastCloses(50) * 20
Momentum == rec_applied[2]
MomentumScored == RecCalled /\ HasCloses /\ hist_data.rows >= 50 /\ Len(rec_applied) >= 2

\* C27: with at least 50 bars the momentum rule takes the first matching
\* case in this order: current > MA20 > MA50 adds 2; otherwise current > MA20
\* adds 1 (also when current < MA50); otherwise current < MA50 subtracts 1;
\* otherwise it adds 0.
C27_MomentumCases ==
    MomentumScored =>
        /\ Momentum.name = "Price Momentum"
        /\ Momentum.delta =
               IF AboveMA20 /\ MA20AboveMA50 THEN 2
               ELSE IF AboveMA20 THEN 1
               ELSE IF BelowMA50 THEN 0 - 1
               ELSE 0

\* above the 20-day average but below the 50-day one: +1
C27_Witness ==
    /\ MomentumScored /\ AboveMA20 /\ BelowMA50
    /\ Momentum.delta = 1
    /\ Momentum.factor = "Positive momentum (above 20-day MA)"

C27_WitnessNeutral ==
    /\ MomentumScored /\ ~AboveMA20 /\ ~BelowMA50 /\ Momentum.delta = 0

C27_WitnessWeak ==
    /\ MomentumScored /\ ~AboveMA20 /\ BelowMA50 /\ Momentum.delta = 0 - 1

C27_WitnessStrong ==
    /\ MomentumScored /\ AboveMA20 /\ MA20AboveMA50 /\ Momentum.delta = 2

(***************************************************************************)
(* Properties of the two growth rules.                                     *)
(***************************************************************************)
\* the mean of the period-over-period changes of a line, as a fraction,
\* taken between neighbouring reported points in the statement's order
MeanChange(line) == mean(pct_change(dropna(line, 1)))
AsPercent(x) == times100(x)
RevenueRule == comp_applied[1]
ProfitRule == comp_applied[2]
NotAbove(x, p, q) == less(x, p, q) \/ (x.kind = "num" /\ x.n * q = p * x.d)

C28_WitnessWarning ==
    /\ RulesRan /\ EnoughPoints(RevenueLine)
    /\ MeanChange(RevenueLine) = Rat(0, 1)
    /\ RevenueRule.delta = 0 /\ RevenueRule.warnings = <<"Declining revenue trend">>

(***************************************************************************)
(* Properties of an empty query.                                           *)
(***************************************************************************)
BlankQuery == \A i \in DOMAIN query : query[i] \in Whitespace

\* C29: for an empty or whitespace-only query that the gateway does not
\* report as a valid symbol, search_company returns the symbol of the first
\* entry of the domestic table ('TCS.NS'), because the empty string is a
\* substring of every name; the suffix probes and the fallback are never
\* reached, so their answers make no difference.
C29_BlankQueryGivesFirstEntry ==
    (Searched /\ BlankQuery /\ ~ProbeSaysValid(1)) =>
        /\ result = Returned(indian_companies[1].symbol)
        /\ result = Returned(<<"T", "C", "S", ".", "N", "S">>)

\* a query of two spaces, with a suffix probe that would have succeeded
C29_Witness ==
    /\ Searched /\ query = <<" ", " ">>
    /\ ~ProbeSaysValid(1) /\ ProbeSaysValid(2)
    /\ result = Returned(<<"T", "C", "S", ".", "N", "S">>)

(***************************************************************************)
(* The macroeconomic-impact specification: one call of                     *)
(* analyze_economic_impact_on_stock over the getters' readings.            *)
(***************************************************************************)
GdpReadings == {None, NanReading, Num(0 - 100), Num(0), Num(150), Num(200), Num(250)}
InflationReadings ==
    {None, NanReading, Num(0 - 50), Num(0), Num(150), Num(200), Num(250), Num(300), Num(350),
     Num(400), Num(450)}
RateReadings == {None, NanReading, Num(0), Num(250), Num(300), Num(350), Num(400), Num(450)}
Sectors ==
    {"Financial Services", "Banking", "Real Estate", "Utilities", "REITs", "Technology",
     "Healthcare", "Consumer Cyclical", "Unknown"}

Economies ==
    [gdp_growth : GdpReadings, inflation_rate : InflationReadings,
     fed_funds_rate : RateReadings, sector : Sectors]

InitEcon ==
    /\ indian_exchanges = IndianExchangesInit
    /\ indian_companies = IndianCompaniesInit
    /\ us_companies = UsCompaniesInit
    /\ session = << >>
    /\ query = << >>
    /\ probe = [i \in 1..(1 + Len(IndianExchangesInit)) |-> "none"]
    /\ result = NotCalled
    /\ info = NoProfile
    /\ hist_data = NoHistory /\ rec_applied = << >> /\ rec_result = NotCalled
    /\ financials = NoFrame /\ balance_sheet = NoFrame /\ comp_result = NotCalled
    /\ compounding_tab = NotCalled /\ comp_applied = << >>
    /\ limit = DefaultLimit /\ suggestions = NotCalled
    /\ cash_flow = NoFrame /\ valuation = NoValuation
    /\ economy \in Economies
    /\ economic_analysis = NotCalled

\* one call of analyze_economic_impact_on_stock(info, sector)
AnalyzeEconomicImpact ==
    /\ economic_analysis = NotCalled
    /\ economic_analysis' = analyze_economic_impact_on_stock(economy)
    /\ UNCHANGED economy
    /\ UNCHANGED <<search_vars, rec_vars, comp_vars, sugg_vars, val_vars>>

NextEcon == AnalyzeEconomicImpact

SpecEcon == InitEcon /\ [][NextEcon]_vars

(***************************************************************************)
(* Properties of the macroeconomic impact analysis.                        *)
(***************************************************************************)
EconAnalysed == economic_analysis # NotCalled

Impact == economic_analysis.value.impact_analysis

ThreeImpacts == <<Impact.gdp_impact, Impact.inflation_impact, Impact.interest_rate_impact>>

Positives == Cardinality({i \in 1..3 : ThreeImpacts[i] = "Positive"})

Negatives == Cardinality({i \in 1..3 : ThreeImpacts[i] = "Negative"})

\* the entries a given impact can put in the recommendations list
EntriesOf ==
    <<{GdpStrong, GdpContraction},
      {InflationHigh, InflationModerate},
      {RatesHelpFinancials, RatesPressureSensitive, RatesPressureTech}>>

EntriesFor(i) ==
    Cardinality({k \in DOMAIN Impact.recommendations : Impact.recommendations[k] \in EntriesOf[i]})

\* C30: overall_economic_sentiment is Positive exactly when more of the three
\* impacts (GDP, inflation, interest rate) are Positive than Negative, Negative
\* exactly when more are Negative than Positive, and Neutral otherwise; the
\* recommendations list holds exactly one entry per non-Neutral impact among
\* those three, and nothing else.
C30_SentimentByMajority ==
    EconAnalysed =>
        /\ ~economic_analysis.raised
        /\ Impact.overall_economic_sentiment = "Positive" <=> Positives > Negatives
        /\ Impact.overall_economic_sentiment = "Negative" <=> Negatives > Positives
        /\ Impact.overall_economic_sentiment = "Neutral" <=> Positives = Negatives
        /\ \A i \in 1..3 : EntriesFor(i) = IF ThreeImpacts[i] = "Neutral" THEN 0 ELSE 1
        /\ Len(Impact.recommendations) = Cardinality({i \in 1..3 : ThreeImpacts[i] # "Neutral"})

\* a financial stock: the rate impact and the sector-specific impact are both
\* Positive, GDP and inflation are Negative, so the sentiment is Negative
C30_Witness ==
    /\ EconAnalysed
    /\ Impact.sector_specific_impact = "Positive"
    /\ Positives = 1 /\ Negatives = 2
    /\ Impact.overall_economic_sentiment = "Negative"
    /\ Len(Impact.recommendations) = 3

\* one Positive against one Negative, the third Neutral: Neutral with two entries
C30_WitnessTie ==
    /\ EconAnalysed
    /\ Positives = 1 /\ Negatives = 1
    /\ Impact.overall_economic_sentiment = "Neutral"
    /\ Len(Impact.recommendations) = 2

====
